---- MODULE Spec2Model ----
(***************************************************************************)
(* State-machine model of the resilient structured-output channel of the  *)
(* job recommender: the sliding-window rate limiters                       *)
(* (services/llm_client.py, services/findsgjobs_client.py), the retry     *)
(* loop of OllamaClient.chat and the JSON extraction of chat_json /       *)
(* chat_json_array.                                                        *)
(*                                                                         *)
(* Time.  time.time() is read into the integer clock `now`, counted in    *)
(* ticks.  A behaviour follows one of the two limiters (`unit`), and one   *)
(* tick is the epsilon of that limiter's wait_time: 0.5 s in a behaviour  *)
(* of the LLM limiter, 0.1 s in a behaviour of the job-board limiter.     *)
(* The two limiters share no state.  The configured window widths,        *)
(* capacities and the retry base delay are scaled down (they are          *)
(* configuration values of config.py) so that the clock stays bounded.    *)
(***************************************************************************)
EXTENDS Integers, Sequences, FiniteSets, TLC

\* ------------------------------------------------------------------ bounds
\* The clock stops advancing at MaxTime (limiter and chat specifications).
MaxTime == 4
\* The clock bound of the specification with two concurrent callers.
MaxTimeConc == 5
\* Each of the concurrent callers makes at most this many acquire calls.
MaxCallsConc == 2
\* The clock bound of the chat specification.
MaxTimeChat == 13
\* The jobs of one pipeline run.
MaxJobs == 3
\* The clock of a pipeline run.
MaxTimePipe == 14
\* max_pages of fetch_all_findsgjobs (config.py:27 FIND_SGJOBS_MAX_PAGES = 5).
MaxPages == 3
\* The clock of a fetch_all_findsgjobs call.
MaxTimeFetch == 6

\* The specification with fairness: no acquire is called after MaxTimeLive,
\* and the clock runs on from there only for a caller that sleeps.
MaxTimeLive == 4
\* The chat specification with fairness: no chat is called after
\* MaxTimeChatLive.
MaxTimeChatLive == 3

\* --------------------------------------------- configuration (config.py)
\* config.py:19 (60 requests), scaled.
OLLAMA_RATE_LIMIT_REQUESTS_PER_MINUTE == 2
\* config.py:20 (60 s), in ticks, scaled.
OLLAMA_RATE_LIMIT_WINDOW_SECONDS == 2
\* config.py:29 (60 requests), scaled.
FIND_SGJOBS_RATE_LIMIT == 2
\* config.py:30 (60 s), in ticks, scaled.
FIND_SGJOBS_RATE_LIMIT_WINDOW == 3
\* llm_client.py:85, the "+ 0.5" of wait_time: one tick of 0.5 s.
OllamaEpsilon == 1
\* findsgjobs_client.py:38, the "+ 0.1" of wait_time: one tick of 0.1 s.
JobsEpsilon == 1

\* config.py:21, OLLAMA_RETRY_DELAY_SECONDS = 2 s, in ticks of 0.5 s.
OLLAMA_RETRY_DELAY_SECONDS == 4
\* config.py:22
OLLAMA_MAX_RETRIES == 3
\* config.py:15, the model name of the client (self.model_name).
OLLAMA_MODEL_NAME == "m1"

\* The endpoint keys (model names) and the callers (threads) of the model.
Models == {"m1", "m2"}
Callers == {"c1", "c2"}

\* A key with no deque in _ollama_request_timestamps.
NoDeque == 0
\* heap[JobsDeque] is the module-level deque _request_timestamps.
JobsDeque == 1
\* "no timestamp" in the ghost variable held.
NoTime == 0 - 1

VARIABLES
    unit,       \* the limiter the behaviour follows, "ollama" or "jobs"
    now,        \* the wall clock, what time.time() returns
    store,      \* _ollama_request_timestamps: model name -> deque (NoDeque: no key)
    heap,       \* the deque objects: heap[d] is the sequence of timestamps of deque d
    pc,         \* per caller: the place of its call
    lim,        \* per caller: the limiter of its acquire, "ollama" or "jobs"
    key,        \* per caller: model_name
    dq,         \* per caller: the local `timestamps` (a reference to a deque)
    cur,        \* per caller: the local current_time
    wake,       \* per caller: the time its time.sleep ends
    ret,        \* per caller: where its acquire returns to
    ev,         \* the last step taken: [op, c], with the limiter, key and `held`
                \* of an acquire that returned, and the dictionary a status
                \* call returned
    held,       \* ghost: per caller, the oldest in-window timestamp at the call
                \*        of its acquire if the window was full then, else NoTime
    appended,   \* ghost: the timestamps the acquires appended, in order
    calls,      \* ghost: per caller, the acquire calls made (concurrent callers)
    reported,   \* ghost: per key, the remaining_requests its last status call
                \*        reported, NoReport once an acquire has appended to the
                \*        key since
    attempt,    \* chat: the loop variable `attempt` (0-based)
    last_error, \* chat: the local last_error, the failure of the last request
    result,     \* chat: what the last chat call returned or raised
    reqs,       \* ghost: the requests.post calls of the chat call
    acqs,       \* ghost: the _check_ollama_rate_limit calls of the chat call
    sleeps,     \* ghost: the backoff delays the chat call has slept, in order
    all429,     \* ghost: every failure of the chat call so far had "429" in its text
    response_text, \* extraction: the completion chat returned, a sequence of
                \* characters
    made,       \* ghost: the pieces the completion was put together from
    extracted,  \* extraction: the last call on the completion and what it
                \* returned or raised
    pipe,       \* pipeline: the skill extraction loop (step 2) of a pipeline
                \* run: its function, its place, the job it is at, job_skills
                \* and (ghost) the jobs extract_skills_from_job was called for
    fetch       \* fetch_all_findsgjobs: its place, the loop variable `page`,
                \* all_jobs, (ghost) the pages requested and how the call ended

limiterVars == <<unit, now, store, heap, pc, lim, key, dq, cur, wake, ret, ev,
                 held, appended>>

chatVars == <<attempt, last_error, result, reqs, acqs, sleeps, all429>>

jsonVars == <<response_text, made, extracted>>

loopVars == <<pipe, fetch>>

\* What the steps of the limiters leave alone.
restOfLimiter == <<calls, reported, chatVars, jsonVars, loopVars>>

vars == <<limiterVars, calls, reported, chatVars, jsonVars, loopVars>>

\* ------------------------------------------------------- limiter helpers

\* The window width, capacity and epsilon of a limiter.
WindowOf(l) ==
    IF l = "ollama" THEN OLLAMA_RATE_LIMIT_WINDOW_SECONDS
    ELSE FIND_SGJOBS_RATE_LIMIT_WINDOW

LimitOf(l) ==
    IF l = "ollama" THEN OLLAMA_RATE_LIMIT_REQUESTS_PER_MINUTE
    ELSE FIND_SGJOBS_RATE_LIMIT

EpsilonOf(l) == IF l = "ollama" THEN OllamaEpsilon ELSE JobsEpsilon

\* Mutant of Expired: evicts a timestamp as soon as it is W old.
ExpiredAtW(t, ts, W) == t - ts >= W

\* `current_time - timestamps[0] > WINDOW`
Expired(t, ts, W) == t - ts > W

\* Mutant of AtLimit: one slot too many.
AtLimitOffByOne(n, N) == n > N

\* `len(timestamps) >= LIMIT`
AtLimit(n, N) == n >= N

\* Mutant of WaitTime: the wait spans two windows.
WaitTimeTwoWindows(t, oldest, W, eps) == 2 * W - (t - oldest) + eps

\* Mutant of WaitTime: the wait without the window width.
WaitTimeNoWindow(t, oldest, W, eps) == eps - (t - oldest)

\* `wait_time = WINDOW - (current_time - oldest_timestamp) + eps`
WaitTime(t, oldest, W, eps) == W - (t - oldest) + eps

\* `while timestamps and current_time - timestamps[0] > WINDOW: popleft()`,
\* run to its end by one caller alone.
\* Mutant of EvictAll: the status call evicts nothing.
EvictNone(ts, t, W) == ts

RECURSIVE EvictAll(_, _, _)
EvictAll(ts, t, W) ==
    IF ts # <<>> /\ Expired(t, Head(ts), W) THEN EvictAll(Tail(ts), t, W) ELSE ts

Max(a, b) == IF a >= b THEN a ELSE b

\* The timestamps of ts that are at most W old at time t.
InWindow(ts, t, W) == SelectSeq(ts, LAMBDA x : t - x <= W)

\* The window of key m (empty if the key has no deque).
Window(m) == IF store[m] = NoDeque THEN <<>> ELSE heap[store[m]]

\* How often x occurs in the sequence s.
Count(s, x) == Cardinality({i \in 1..Len(s) : s[i] = x})

\* The widest window: timestamps older than it are dropped from `appended`.
GhostWindow == Max(OLLAMA_RATE_LIMIT_WINDOW_SECONDS, FIND_SGJOBS_RATE_LIMIT_WINDOW)

\* What requests.post / raise_for_status / response.json can do to one
\* attempt.  A response has a status code and, for 200, a body with or without
\* message.content.  An exception has its class as the except clauses see it
\* ("Timeout", "HTTPError" with the status of its response, or any other
\* "RequestException") and its text str(e), kept as the set of the substrings
\* the handlers look for that the text contains.
Response(status, content) ==
    [kind |-> "response", status |-> status, content |-> content, text |-> {}]

Failure(kind, status, text) ==
    [kind |-> kind, status |-> status, content |-> FALSE, text |-> text]

NoError == Failure("none", 0, {})

\* No chat call has returned or raised yet.
NoResult == [kind |-> "none", limit |-> 0, cause |-> NoError]

NoStatus == [requests_in_window |-> 0, remaining_requests |-> 0,
             rate_limit |-> 0, window_seconds |-> 0]

\* The keys of the two limiters: the model names of _ollama_request_timestamps
\* and the one window of the job-board client.
JobsKey == "jobs"

LimiterKeys == Models \cup {JobsKey}

KeyOf(l, m) == IF l = "ollama" THEN m ELSE JobsKey

\* No status call has reported on the key since the last append to it.
NoReport == 0 - 1

\* The record of the last step: the step and the caller; for the return of an
\* acquire its limiter, its key and the caller's `held`; for a status call its
\* limiter, its key, the dictionary returned, how many timestamps it evicted,
\* whether it created the key's deque, and what the status call before it
\* reported on the key (NoReport if an acquire has appended since).
Event(op, c) ==
    [op |-> op, c |-> c, l |-> "", m |-> "", held |-> NoTime, status |-> NoStatus,
     evicted |-> 0, created |-> FALSE, out |-> NoError, prev |-> NoReport]

ReturnEvent(c) ==
    [op |-> "acq_return", c |-> c, l |-> lim[c],
     m |-> IF lim[c] = "ollama" THEN key[c] ELSE "", held |-> held[c],
     status |-> NoStatus, evicted |-> 0, created |-> FALSE, out |-> NoError,
     prev |-> NoReport]

StatusEvent(c, l, m, d, n, fresh) ==
    [op |-> "status", c |-> c, l |-> l, m |-> m, held |-> NoTime, status |-> d,
     evicted |-> n, created |-> fresh, out |-> NoError,
     prev |-> reported[KeyOf(l, m)]]

\* ------------------------------------------------------- text (Python str)
\* A text is a sequence of characters, each a one-character string.  The texts of the model are
\* over the characters
\*     { } [ ] " : , \ ` ( ) / . space newline  0 1  a x j s o n h t p
\* so the JSON literals true, false, null, NaN, Infinity, a minus sign, an
\* exponent and a \u escape cannot occur in them.

QUOTE == "\""
BACKSLASH == "\\"
\* The backtick, which a TLA+ string cannot hold, is the character "backtick".
BACKTICK == "backtick"
FENCE == <<BACKTICK, BACKTICK, BACKTICK>>
FENCE_JSON == FENCE \o <<"j", "s", "o", "n">>

\* str.strip / str.rstrip and the JSON decoder's whitespace, over the alphabet.
WHITESPACE == {" ", "\n"}

\* The decimal digits.
Digits == {"0", "1", "2", "3", "4", "5", "6", "7", "8", "9"}

\* s[i] with 1-based i, "" past either end.
At(s, i) == IF i \in 1..Len(s) THEN s[i] ELSE ""

\* Python's s[a:b] for 0 <= a and 0 <= b <= len(s).
Slice(s, a, b) == SubSeq(s, a + 1, b)

\* Python's s.find(pat, start): the lowest 0-based index at or after start
\* where pat occurs, -1 if there is none.
Find(s, pat, start) ==
    LET at == {i \in start..(Len(s) - Len(pat)) : Slice(s, i, i + Len(pat)) = pat}
    IN  IF at = {} THEN 0 - 1 ELSE CHOOSE i \in at : \A j \in at : i <= j

\* Python's s.rfind(pat): the highest 0-based index where pat occurs, or -1.
RFind(s, pat) ==
    LET at == {i \in 0..(Len(s) - Len(pat)) : Slice(s, i, i + Len(pat)) = pat}
    IN  IF at = {} THEN 0 - 1 ELSE CHOOSE i \in at : \A j \in at : i >= j

\* Python's `pat in s`.
Contains(s, pat) == Find(s, pat, 0) # 0 - 1

\* Python's s.rstrip(), s.lstrip() and s.strip().
RECURSIVE RStrip(_)
RStrip(s) ==
    IF s # <<>> /\ s[Len(s)] \in WHITESPACE THEN RStrip(SubSeq(s, 1, Len(s) - 1)) ELSE s

RECURSIVE LStrip(_)
LStrip(s) == IF s # <<>> /\ Head(s) \in WHITESPACE THEN LStrip(Tail(s)) ELSE s

Strip(s) == LStrip(RStrip(s))

\* Python's c * n for a character c.
Repeat(c, n) == [i \in 1..n |-> c]

\* ------------------------------------------------------ JSON (json.loads)
\* A parsed value.  t is its Python type; a str or a number keeps its
\* characters in s (two numbers of the model's texts are equal exactly when
\* their characters are), a list its items in a, a dict its items in o as a
\* set of <<key, value>> pairs with one pair per key.
JValue(t, s, a, o) == [t |-> t, s |-> s, a |-> a, o |-> o]
JNone == JValue("none", <<>>, <<>>, {})
JStr(cs) == JValue("str", cs, <<>>, {})
JNum(cs) == JValue("number", cs, <<>>, {})
JList(items) == JValue("list", <<>>, items, {})
JDict(pairs) == JValue("dict", <<>>, <<>>, pairs)

\* The keys of a dict.
Keys(v) == {p[1] : p \in v.o}

\* d[k] = v of a dict under construction: a repeated key keeps the last value.
SetItem(pairs, k, v) == {p \in pairs : p[1] # k} \cup {<<k, v>>}

\* A decoding step: it raised JSONDecodeError, or it read the value v and
\* stands at the 1-based position i.
Undecodable == [ok |-> FALSE, v |-> JNone, i |-> 0]
Decoded(v, i) == [ok |-> TRUE, v |-> v, i |-> i]

\* The decoder's whitespace skip from position i.
RECURSIVE SkipWs(_, _)
SkipWs(s, i) == IF At(s, i) \in WHITESPACE THEN SkipWs(s, i + 1) ELSE i

\* The character a backslash escape stands for; "" for an invalid escape.
\* (\b has no TLA+ spelling and \u needs hex digits: neither is in the
\* alphabet.)
Unescape(c) ==
    IF c \in {QUOTE, BACKSLASH, "/"} THEN c
    ELSE IF c = "n" THEN "\n"
    ELSE IF c = "t" THEN "\t"
    ELSE ""

\* json.decoder.scanstring in strict mode, from the position after the
\* opening quote: an unterminated string, a control character or an invalid
\* escape raises.
RECURSIVE ScanString(_, _, _)
ScanString(s, i, acc) ==
    LET c == At(s, i)
    IN  IF c = "" \/ c = "\n" THEN Undecodable
        ELSE IF c = QUOTE THEN Decoded(JStr(acc), i + 1)
        ELSE IF c = BACKSLASH
        THEN IF Unescape(At(s, i + 1)) = "" THEN Undecodable
             ELSE ScanString(s, i + 2, Append(acc, Unescape(At(s, i + 1))))
        ELSE ScanString(s, i + 1, Append(acc, c))

\* The end (exclusive) of the run of digits from position i.
RECURSIVE DigitsEnd(_, _)
DigitsEnd(s, i) == IF At(s, i) \in Digits THEN DigitsEnd(s, i + 1) ELSE i

\* NUMBER_RE of json.scanner at a digit: (0|[1-9]\d*)(\.\d+)?
ScanNumber(s, i) ==
    LET intEnd == IF At(s, i) = "0" THEN i + 1 ELSE DigitsEnd(s, i)
        end == IF At(s, intEnd) = "." /\ At(s, intEnd + 1) \in Digits
               THEN DigitsEnd(s, intEnd + 1) ELSE intEnd
    IN  Decoded(JNum(SubSeq(s, i, end - 1)), end)

RECURSIVE ScanOnce(_, _), ScanMembers(_, _, _), ScanItems(_, _, _)

\* json.scanner.scan_once at position i.
ScanOnce(s, i) ==
    LET c == At(s, i)
    IN  IF c = QUOTE THEN ScanString(s, i + 1, <<>>)
        ELSE IF c = "{"
        THEN \* JSONObject: an empty object or the first key's quote
             LET j == SkipWs(s, i + 1)
             IN  IF At(s, j) = "}" THEN Decoded(JDict({}), j + 1)
                 ELSE IF At(s, j) = QUOTE THEN ScanMembers(s, j + 1, {})
                 ELSE Undecodable
        ELSE IF c = "["
        THEN \* JSONArray
             LET j == SkipWs(s, i + 1)
             IN  IF At(s, j) = "]" THEN Decoded(JList(<<>>), j + 1)
                 ELSE ScanItems(s, j, <<>>)
        ELSE IF c \in Digits THEN ScanNumber(s, i)
        ELSE Undecodable

\* The loop of JSONObject, from the position after a key's opening quote.
ScanMembers(s, i, pairs) ==
    LET k == ScanString(s, i, <<>>)
        colon == SkipWs(s, k.i)
        v == ScanOnce(s, SkipWs(s, colon + 1))
        e == SkipWs(s, v.i)
        next == SkipWs(s, e + 1)
    IN  IF ~k.ok \/ At(s, colon) # ":" THEN Undecodable
        ELSE IF ~v.ok THEN Undecodable
        ELSE IF At(s, e) = "}" THEN Decoded(JDict(SetItem(pairs, k.v.s, v.v)), e + 1)
        ELSE IF At(s, e) = "," /\ At(s, next) = QUOTE
        THEN ScanMembers(s, next + 1, SetItem(pairs, k.v.s, v.v))
        ELSE Undecodable

\* The loop of JSONArray, from the position of an item.
ScanItems(s, i, items) ==
    LET v == ScanOnce(s, i)
        e == SkipWs(s, v.i)
    IN  IF ~v.ok THEN Undecodable
        ELSE IF At(s, e) = "]" THEN Decoded(JList(Append(items, v.v)), e + 1)
        ELSE IF At(s, e) = "," THEN ScanItems(s, SkipWs(s, e + 1), Append(items, v.v))
        ELSE Undecodable

\* json.loads(s): one value between optional whitespace, nothing after it.
Loads(s) ==
    LET r == ScanOnce(s, SkipWs(s, 1))
    IN  IF r.ok /\ SkipWs(s, r.i) = Len(s) + 1 THEN r ELSE Undecodable

\* ------------------------------------------- _repair_json [llm_client.py]

\* The end (exclusive) of the run of [^\s\)] characters from position i.
RECURSIVE UrlBodyEnd(_, _)
UrlBodyEnd(s, i) ==
    IF At(s, i) \notin (WHITESPACE \cup {")", ""}) THEN UrlBodyEnd(s, i + 1) ELSE i

\* Where a match of \(https?://[^\s\)]+\) (secure: \(http://[^\s\)]+\) only
\* when FALSE) that starts at position i ends, exclusive; 0 if none starts there.
UrlEnd(s, i, secure) ==
    LET plain == <<"(", "h", "t", "t", "p", ":", "/", "/">>
        tls == <<"(", "h", "t", "t", "p", "s", ":", "/", "/">>
        body == IF i + Len(plain) - 1 <= Len(s) /\ SubSeq(s, i, i + Len(plain) - 1) = plain
                THEN i + Len(plain)
                ELSE IF /\ secure
                        /\ i + Len(tls) - 1 <= Len(s)
                        /\ SubSeq(s, i, i + Len(tls) - 1) = tls
                THEN i + Len(tls)
                ELSE 0
        end == UrlBodyEnd(s, body)
    IN  IF body # 0 /\ end > body /\ At(s, end) = ")" THEN end + 1 ELSE 0

\* re.sub of the URL pattern with '', left to right from position i.
RECURSIVE RemoveUrls(_, _, _)
RemoveUrls(s, i, secure) ==
    IF i > Len(s) THEN <<>>
    ELSE IF UrlEnd(s, i, secure) # 0 THEN RemoveUrls(s, UrlEnd(s, i, secure), secure)
    ELSE <<s[i]>> \o RemoveUrls(s, i + 1, secure)

\* `json_str += '}' * (open_braces - close_braces)` and then
\* `json_str += ']' * (open_brackets - close_brackets)`: the closers
\* _repair_json appends, all braces before all brackets
\* [llm_client.py:418-421].
Closers(braces, brackets) ==
    (IF braces > 0 THEN Repeat("}", braces) ELSE <<>>)
        \o (IF brackets > 0 THEN Repeat("]", brackets) ELSE <<>>)

\* The text after the mid-string test [llm_client.py:406-415]: inside
\* `if open_braces > close_braces`, a text whose last non-blank character is
\* none of " , ] } and whose last quote is not escaped gets a closing quote
\* (and loses its trailing whitespace).
CloseString(s) ==
    LET trimmed == RStrip(s)
        last_quote == RFind(trimmed, <<QUOTE>>)
    IN  IF /\ trimmed # <<>>
           /\ trimmed[Len(trimmed)] \notin {QUOTE, ",", "]", "}"}
           /\ last_quote # 0 - 1
           /\ (last_quote = 0 \/ trimmed[last_quote] # BACKSLASH)
        THEN Append(trimmed, QUOTE)
        ELSE s

\* _repair_json(json_str) [llm_client.py:379-423].
RepairJson(json_str) ==
    LET s == RemoveUrls(RemoveUrls(json_str, 1, TRUE), 1, FALSE)
        braces == Count(s, "{") - Count(s, "}")
        brackets == Count(s, "[") - Count(s, "]")
    IN  (IF braces > 0 THEN CloseString(s) ELSE s) \o Closers(braces, brackets)

\* -------------------------------- _extract_json_objects [llm_client.py]

\* re.sub(r'^\d+\.\s*', '', text, flags=re.MULTILINE) from position i: at the
\* start of a line, digits, a dot and the whitespace after them are dropped.
RECURSIVE StripNumbering(_, _)
StripNumbering(s, i) ==
    IF i > Len(s) THEN <<>>
    ELSE IF /\ (i = 1 \/ s[i - 1] = "\n")
            /\ s[i] \in Digits
            /\ At(s, DigitsEnd(s, i)) = "."
    THEN StripNumbering(s, SkipWs(s, DigitsEnd(s, i) + 1))
    ELSE <<s[i]>> \o StripNumbering(s, i + 1)

\* One candidate span of the scan: parsed as it is, else repaired and parsed,
\* else skipped [llm_client.py:454-466].
Candidate(objects, json_str) ==
    IF Loads(json_str).ok THEN Append(objects, Loads(json_str).v)
    ELSE IF Loads(RepairJson(json_str)).ok
    THEN Append(objects, Loads(RepairJson(json_str)).v)
    ELSE objects

\* The brace-matching loop from position i [llm_client.py:442-467].
\* start_idx is 1-based here, 0 for Python's -1.
RECURSIVE ScanBraces(_, _, _, _, _)
ScanBraces(text, i, brace_count, start_idx, objects) ==
    IF i > Len(text) THEN objects
    ELSE IF text[i] = "{"
    THEN ScanBraces(text, i + 1, brace_count + 1,
                    IF brace_count = 0 THEN i ELSE start_idx, objects)
    ELSE IF text[i] = "}"
    THEN IF brace_count - 1 = 0 /\ start_idx # 0
         THEN ScanBraces(text, i + 1, 0, 0,
                         Candidate(objects, SubSeq(text, start_idx, i)))
         ELSE ScanBraces(text, i + 1, brace_count - 1, start_idx, objects)
    ELSE ScanBraces(text, i + 1, brace_count, start_idx, objects)

\* _extract_json_objects(text) [llm_client.py:425-469].
ExtractJsonObjects(text) == ScanBraces(StripNumbering(text, 1), 1, 0, 0, <<>>)

\* ------------------------------- chat_json, chat_json_array [llm_client.py]

\* What a call on a completion did: it returned the value v, or it raised
\* ValueError; the terminal error tells whether the brace/bracket counts show
\* a truncation (incomplete) and quotes the text it attempted to parse.
\* No response length is quoted.
NoLength == 0 - 1

Returns(op, v) ==
    [op |-> op, kind |-> "return", v |-> v, error |-> "", incomplete |-> FALSE,
     attempted |-> <<>>, length |-> NoLength]

Raises(op, error, incomplete, attempted) ==
    [op |-> op, kind |-> "raise", v |-> JNone, error |-> error,
     incomplete |-> incomplete, attempted |-> attempted, length |-> NoLength]

NoExtraction ==
    [op |-> "none", kind |-> "none", v |-> JNone, error |-> "", incomplete |-> FALSE,
     attempted |-> <<>>, length |-> NoLength]

\* `response_text[:500]`, the text the terminal error quotes
\* [llm_client.py:603, 683].
SnippetChars == 500

Snippet(text) == IF Len(text) > SnippetChars THEN Slice(text, 0, SnippetChars) ELSE text

\* The terminal error of both functions quotes `len(original_response)`
\* [llm_client.py:604, 684].
OfOriginal(r, original) ==
    IF r.error = "malformed" THEN [r EXCEPT !.length = Len(original)] ELSE r

\* Mutant of IsEmptyResponse: only the empty text counts as empty.
IsEmptyResponseNoStrip(text) == text = <<>>

\* `not response_text or not response_text.strip()` [llm_client.py:491, 631]
IsEmptyResponse(text) == text = <<>> \/ Strip(text) = <<>>

\* The text inside the first fence that opens with `marker`: up to the next
\* ``` or to the end of the text, stripped.
FenceContent(text, marker) ==
    LET start == Find(text, marker, 0) + Len(marker)
        end == Find(text, FENCE, start)
    IN  Strip(IF end = 0 - 1 THEN Slice(text, start, Len(text))
              ELSE Slice(text, start, end))

\* The fence stripping of both functions [llm_client.py:497-512, 637-650].
FenceStrip(text) ==
    IF Contains(text, FENCE_JSON) THEN FenceContent(text, FENCE_JSON)
    ELSE IF Contains(text, FENCE) THEN FenceContent(text, FENCE)
    ELSE text

\* The text from the first `open` to the last `close`, when both occur in this
\* order; <<>> if they do not.
Span(text, open, close) ==
    LET first == Find(text, <<open>>, 0)
        last == RFind(text, <<close>>)
    IN  IF first # 0 - 1 /\ last # 0 - 1 /\ last > first
        THEN Slice(text, first, last + 1) ELSE <<>>

\* `(open_braces > close_braces) or (open_brackets > close_brackets)`
IsIncomplete(text) ==
    \/ Count(text, "{") > Count(text, "}")
    \/ Count(text, "[") > Count(text, "]")

\* Mutant of ParseObject: whatever parses is returned, without the isinstance
\* tests.
ParseObjectAny(text) ==
    LET parsed == Loads(text)
        repaired == Loads(RepairJson(text))
        extracted_objects == ExtractJsonObjects(text)
    IN  IF parsed.ok THEN Returns("chat_json", parsed.v)
        ELSE IF repaired.ok THEN Returns("chat_json", repaired.v)
        ELSE IF extracted_objects # <<>> THEN Returns("chat_json", extracted_objects[1])
        ELSE Raises("chat_json", "malformed", IsIncomplete(text), Snippet(text))

\* chat_json from `json.loads(response_text)` on [llm_client.py:543-609].
ParseObject(text) ==
    LET parsed == Loads(text)
        repaired == Loads(RepairJson(text))
        extracted_objects == ExtractJsonObjects(text)
    IN  IF parsed.ok
        THEN IF parsed.v.t = "dict" THEN Returns("chat_json", parsed.v)
             ELSE IF parsed.v.t = "list"
             THEN IF Len(parsed.v.a) > 0 /\ parsed.v.a[1].t = "dict"
                  THEN Returns("chat_json", parsed.v.a[1])
                  ELSE Raises("chat_json", "array", FALSE, text)
             ELSE Raises("chat_json", "not_a_dict", FALSE, text)
        ELSE IF repaired.ok /\ repaired.v.t = "dict" THEN Returns("chat_json", repaired.v)
        ELSE IF extracted_objects # <<>> THEN Returns("chat_json", extracted_objects[1])
        ELSE Raises("chat_json", "malformed", IsIncomplete(text), Snippet(text))

\* chat_json after self.chat returned response_text [llm_client.py:491-609].
ChatJsonOf(text) ==
    LET stripped == FenceStrip(text)
        array_text == Span(stripped, "[", "]")
        array == Loads(array_text)
        object_text == Span(stripped, "{", "}")
    IN  IF IsEmptyResponse(text) THEN Raises("chat_json", "empty", FALSE, <<>>)
        ELSE IF /\ At(Strip(stripped), 1) = "["
                /\ array_text # <<>>
                /\ array.ok
                /\ array.v.t = "list"
                /\ Len(array.v.a) > 0
        THEN IF Len(array.v.a) = 1 /\ array.v.a[1].t = "dict"
             THEN Returns("chat_json", array.v.a[1])
             ELSE Raises("chat_json", "array", FALSE, array_text)
        ELSE OfOriginal(ParseObject(IF object_text # <<>> THEN object_text ELSE stripped),
                        text)

\* chat_json_array after self.chat returned response_text
\* [llm_client.py:631-688].
ChatJsonArrayOf(text) ==
    LET stripped == FenceStrip(text)
        array_text == Span(stripped, "[", "]")
        array == Loads(array_text)
        extracted_objects == ExtractJsonObjects(stripped)
        parsed == Loads(stripped)
    IN  IF IsEmptyResponse(text) THEN Raises("chat_json_array", "empty", FALSE, <<>>)
        ELSE IF array_text # <<>> /\ array.ok /\ array.v.t = "list"
        THEN Returns("chat_json_array", array.v)
        ELSE IF extracted_objects # <<>>
        THEN Returns("chat_json_array", JList(extracted_objects))
        ELSE IF parsed.ok /\ parsed.v.t = "dict"
        THEN Returns("chat_json_array", JList(<<parsed.v>>))
        ELSE OfOriginal(Raises("chat_json_array", "malformed", FALSE, Snippet(stripped)),
                        text)

\* --------------------------------------------------------- the completions
\* The completions of the model: one JSON object text (body), whole or cut
\* after its first `keep` characters, inside a fence or not, between a
\* leading and a trailing piece of prose.

\* A one-character string literal.
Lit(c) == <<QUOTE, c, QUOTE>>

\* {}   {"a":1}   {"a":"x"}   {"a":[1]}   {"a":["x"]}   {"a":{"x":1}}
\* {"a":"x","s":[1]}   {"a":{"x":["s"]}}   { "a" : "}" }   {"a":"```"}
Objects ==
    { <<"{", "}">>,
      <<"{">> \o Lit("a") \o <<":", "1", "}">>,
      <<"{">> \o Lit("a") \o <<":">> \o Lit("x") \o <<"}">>,
      <<"{">> \o Lit("a") \o <<":", "[", "1", "]", "}">>,
      <<"{">> \o Lit("a") \o <<":", "[">> \o Lit("x") \o <<"]", "}">>,
      <<"{">> \o Lit("a") \o <<":", "{">> \o Lit("x") \o <<":", "1", "}", "}">>,
      <<"{">> \o Lit("a") \o <<":">> \o Lit("x") \o <<",">> \o Lit("s")
            \o <<":", "[", "1", "]", "}">>,
      <<"{">> \o Lit("a") \o <<":", "{">> \o Lit("x") \o <<":", "[">> \o Lit("s")
            \o <<"]", "}", "}">>,
      <<"{", " ">> \o Lit("a") \o <<" ", ":", " ">> \o Lit("}") \o <<" ", "}">>,
      <<"{">> \o Lit("a") \o <<":", QUOTE>> \o FENCE \o <<QUOTE, "}">> }

\* Prose with no brace, bracket or backtick:   (none)   "ax "   "1. "   " ax"
\* and a link   " (http://a)"
PlainProse ==
    { <<>>, <<"a", "x", " ">>, <<"1", ".", " ">>, <<" ", "a", "x">>,
      <<" ", "(", "h", "t", "t", "p", ":", "/", "/", "a", ")">> }

\* Prose before the object:  plain, a reference mark "[1] ", a brace "{ ".
Leading == PlainProse \cup { <<"[", "1", "]", " ">>, <<"{", " ">> }

\* Prose after the object:  plain, or a brace " }".
Trailing == PlainProse \cup { <<" ", "}">> }

\* No fence; ``` ... ```; ```json ... ```; ```js ... ```; ```json with no
\* closing fence.
Fences == {"none", "bare", "json", "js", "json_open"}

\* The completion made of the pieces p.
TextOf(p) ==
    LET body == SubSeq(p.body, 1, p.keep)
        nl == <<"\n">>
        fenced == IF p.fence = "none" THEN body
                  ELSE IF p.fence = "bare" THEN FENCE \o nl \o body \o nl \o FENCE
                  ELSE IF p.fence = "json" THEN FENCE_JSON \o nl \o body \o nl \o FENCE
                  ELSE IF p.fence = "js"
                  THEN FENCE \o <<"j", "s">> \o nl \o body \o nl \o FENCE
                  ELSE FENCE_JSON \o nl \o body
    IN  p.pre \o fenced \o p.post

Pieces(pre, fence, body, post, keep) ==
    [pre |-> pre, fence |-> fence, body |-> body, post |-> post, keep |-> keep]

NoPieces == Pieces(<<>>, "none", <<>>, <<>>, 0)

\* The object whole, in any wrapping.
WholeCompletions ==
    { Pieces(pre, fence, body, post, Len(body)) :
        pre \in Leading, fence \in Fences, body \in Objects, post \in Trailing }

\* The object alone, cut anywhere.
CutCompletions ==
    UNION { { Pieces(<<>>, "none", body, <<>>, keep) : keep \in 0..(Len(body) - 1) } :
            body \in Objects }

\* JSON texts that are no object: scalars and arrays.
\* 1   "x"   "{}"   []   [1]   [[1]]   ["x",1]   [1,{"a":1}]   [{"a":1},1]
\* [{"a":1}]   [{"a":1},{"a":"x"}]
Values ==
    { <<"1">>,
      Lit("x"),
      <<QUOTE, "{", "}", QUOTE>>,
      <<"[", "]">>,
      <<"[", "1", "]">>,
      <<"[", "[", "1", "]", "]">>,
      <<"[">> \o Lit("x") \o <<",", "1", "]">>,
      <<"[", "1", ",", "{">> \o Lit("a") \o <<":", "1", "}", "]">>,
      <<"[", "{">> \o Lit("a") \o <<":", "1", "}", ",", "1", "]">>,
      <<"[", "{">> \o Lit("a") \o <<":", "1", "}", "]">>,
      <<"[", "{">> \o Lit("a") \o <<":", "1", "}", ",", "{">> \o Lit("a") \o <<":">>
            \o Lit("x") \o <<"}", "]">> }

\* A scalar or an array, alone or after plain prose, in a fence or not.
ValueCompletions ==
    { Pieces(pre, fence, body, <<>>, Len(body)) :
        pre \in {<<>>, <<" ">>, <<"a", "x", " ">>}, fence \in {"none", "json"},
        body \in Values }

\* An array cut anywhere.
CutValueCompletions ==
    UNION { { Pieces(<<>>, "none", body, <<>>, keep) : keep \in 1..(Len(body) - 1) } :
            body \in {v \in Values : v[1] = "["} }

\* Text after an array:  plain prose, a brace " }", a bracket " a]".
ArrayTrailing == PlainProse \cup { <<" ", "}">>, <<" ", "a", "]">> }

\* A whole array followed by text that is not JSON.
ArrayCompletions ==
    { Pieces(<<>>, "none", body, post, Len(body)) :
        body \in {v \in Values : v[1] = "["}, post \in ArrayTrailing }

\* An object after prose that holds a closing brace:   } {"a":1}
StrayCompletions ==
    { Pieces(<<"}", " ">>, "none", body, <<>>, Len(body)) : body \in Objects }

\* Empty and whitespace-only texts:   (empty)   " "   "\n"   " \n "
Blanks == { <<>>, <<" ">>, <<"\n">>, <<" ", "\n", " ">> }

BlankCompletions == { Pieces(<<>>, "none", body, <<>>, Len(body)) : body \in Blanks }

\* ----------------------------------------------------- the two loops

\* The jobs of a pipeline run (normalized_jobs), by their place in the list.
Jobs == 1..MaxJobs

\* No pipeline run: the place of the loop, the function that runs it, the job
\* it is at, job_skills (per job "none", "skills" or "minimal"), the time the
\* sleep between two jobs ends, the jobs extract_skills_from_job was called
\* for, and for each of them whether its LLM call failed with a rate-limit
\* error.
NoPipe ==
    [pos |-> "none", fn |-> "", idx |-> 0, job_skills |-> [j \in Jobs |-> "none"],
     wake |-> 0, tried |-> <<>>, limited |-> <<>>]

\* No fetch_all_findsgjobs call: the place of the call, `page`, all_jobs (the
\* pages whose jobs were added, in order), the pages requested in order, and
\* how the call ended ("returned", or "raised" with the error's status).
NoFetch ==
    [pos |-> "none", page |-> 0, all_jobs |-> <<>>, requested |-> <<>>,
     ended |-> "none", status |-> 0]

\* ------------------------------------------------------------------ Init

InitShared ==
    /\ now = 0
    /\ store = [m \in Models |-> NoDeque]
    /\ heap = << <<>> >>
    /\ pc = [c \in Callers |-> "idle"]
    /\ lim = [c \in Callers |-> "ollama"]
    /\ key = [c \in Callers |-> "m1"]
    /\ dq = [c \in Callers |-> NoDeque]
    /\ cur = [c \in Callers |-> 0]
    /\ wake = [c \in Callers |-> 0]
    /\ ret = [c \in Callers |-> "idle"]
    /\ ev = Event("init", "c1")
    /\ held = [c \in Callers |-> NoTime]
    /\ appended = <<>>
    /\ calls = [c \in Callers |-> 0]
    /\ reported = [k \in LimiterKeys |-> NoReport]
    /\ attempt = 0
    /\ last_error = NoError
    /\ result = NoResult
    /\ reqs = 0
    /\ acqs = 0
    /\ sleeps = <<>>
    /\ all429 = TRUE
    /\ pipe = NoPipe
    /\ fetch = NoFetch

\* No completion yet.
InitNoText ==
    /\ response_text = <<>>
    /\ made = NoPieces
    /\ extracted = NoExtraction

InitLimiter == unit \in {"ollama", "jobs"} /\ InitShared /\ InitNoText

InitConc == unit = "ollama" /\ InitShared /\ InitNoText

\* chat has returned a completion: any of the completions of the model.
InitJson ==
    /\ unit = "ollama"
    /\ InitShared
    /\ made \in WholeCompletions \cup CutCompletions \cup ValueCompletions
                  \cup CutValueCompletions \cup ArrayCompletions \cup StrayCompletions
                  \cup BlankCompletions
    /\ response_text = TextOf(made)
    /\ extracted = NoExtraction

\* ------------------------------------------------- the clock (time.time)

\* Time passes between any two steps of the program.
Tick(max) ==
    /\ now < max
    /\ now' = now + 1
    /\ ev' = Event("tick", "c1")
    /\ appended' = InWindow(appended, now + 1, GhostWindow)
    /\ UNCHANGED <<restOfLimiter, unit, store, heap, pc, lim, key, dq, cur, wake, ret, held>>

\* --------------------------- _check_ollama_rate_limit / _check_rate_limit

\* The oldest timestamp inside the window at the call, if the window is full.
HeldAt(ts, l) ==
    LET inw == InWindow(ts, now, WindowOf(l))
    IN  IF Len(inw) >= LimitOf(l) THEN Head(inw) ELSE NoTime

\* A caller calls _check_ollama_rate_limit(model_name) [llm_client.py:68].
CallAcquireOllama(c, m, from, to) ==
    /\ unit = "ollama"
    /\ pc[c] = from
    /\ pc' = [pc EXCEPT ![c] = "acq_key"]
    /\ lim' = [lim EXCEPT ![c] = "ollama"]
    /\ key' = [key EXCEPT ![c] = m]
    /\ ret' = [ret EXCEPT ![c] = to]
    /\ held' = [held EXCEPT ![c] = HeldAt(Window(m), "ollama")]
    /\ ev' = Event("acq_call", c)
    /\ UNCHANGED <<unit, now, store, heap, dq, cur, wake, appended>>

\* A caller calls _check_rate_limit() [findsgjobs_client.py:23].
CallAcquireJobsOf(c) ==
    /\ unit = "jobs"
    /\ pc[c] = "idle"
    /\ pc' = [pc EXCEPT ![c] = "acq_bind"]
    /\ lim' = [lim EXCEPT ![c] = "jobs"]
    /\ ret' = [ret EXCEPT ![c] = "idle"]
    /\ held' = [held EXCEPT ![c] = HeldAt(heap[JobsDeque], "jobs")]
    /\ ev' = Event("acq_call", c)
    /\ UNCHANGED <<calls, reported, chatVars, jsonVars, unit, now, store, heap, key, dq,
                   cur, wake, appended>>

\* An acquire called on its own, outside search_findsgjobs.
CallAcquireJobs(c) == CallAcquireJobsOf(c) /\ UNCHANGED loopVars

\* `if model_name not in _ollama_request_timestamps:` [llm_client.py:72]
AcqKey(c) ==
    /\ pc[c] = "acq_key"
    /\ pc' = [pc EXCEPT ![c] =
                IF store[key[c]] = NoDeque THEN "acq_newkey" ELSE "acq_bind"]
    /\ ev' = Event("acq_key", c)
    /\ UNCHANGED <<restOfLimiter, unit, now, store, heap, lim, key, dq, cur, wake, ret, held,
                   appended>>

\* Mutant of AcqNewKey: a new key is given the deque of a key that has one.
AcqNewKeyShared(c) ==
    /\ pc[c] = "acq_newkey"
    /\ LET others == {m \in Models : store[m] # NoDeque}
       IN  IF others = {}
           THEN /\ heap' = Append(heap, <<>>)
                /\ store' = [store EXCEPT ![key[c]] = Len(heap) + 1]
           ELSE /\ heap' = heap
                /\ store' = [store EXCEPT ![key[c]] = store[CHOOSE m \in others : TRUE]]
    /\ pc' = [pc EXCEPT ![c] = "acq_bind"]
    /\ ev' = Event("acq_newkey", c)
    /\ UNCHANGED <<restOfLimiter, unit, now, lim, key, dq, cur, wake, ret, held, appended>>

\* `_ollama_request_timestamps[model_name] = deque()` [llm_client.py:73]
AcqNewKey(c) ==
    /\ pc[c] = "acq_newkey"
    /\ heap' = Append(heap, <<>>)
    /\ store' = [store EXCEPT ![key[c]] = Len(heap) + 1]
    /\ pc' = [pc EXCEPT ![c] = "acq_bind"]
    /\ ev' = Event("acq_newkey", c)
    /\ UNCHANGED <<restOfLimiter, unit, now, lim, key, dq, cur, wake, ret, held, appended>>

\* `timestamps = ...[model_name]; current_time = time.time()`
\* [llm_client.py:75-76, findsgjobs_client.py:29]
AcqBind(c) ==
    /\ pc[c] = "acq_bind"
    /\ dq' = [dq EXCEPT ![c] = IF lim[c] = "ollama" THEN store[key[c]] ELSE JobsDeque]
    /\ cur' = [cur EXCEPT ![c] = now]
    /\ pc' = [pc EXCEPT ![c] = "acq_evict1"]
    /\ ev' = Event("acq_bind", c)
    /\ UNCHANGED <<restOfLimiter, unit, now, store, heap, lim, key, wake, ret, held, appended>>

\* The test of the eviction loops [llm_client.py:79 and 91,
\* findsgjobs_client.py:32 and 44].
AcqEvictTest(c) ==
    /\ pc[c] \in {"acq_evict1", "acq_evict2"}
    /\ LET ts == heap[dq[c]]
           more == ts # <<>> /\ Expired(cur[c], Head(ts), WindowOf(lim[c]))
       IN  pc' = [pc EXCEPT ![c] =
                    IF pc[c] = "acq_evict1"
                    THEN (IF more THEN "acq_pop1" ELSE "acq_cap")
                    ELSE (IF more THEN "acq_pop2" ELSE "acq_append")]
    /\ ev' = Event("acq_evict", c)
    /\ UNCHANGED <<restOfLimiter, unit, now, store, heap, lim, key, dq, cur, wake, ret, held,
                   appended>>

\* `timestamps.popleft()` [llm_client.py:80 and 92, findsgjobs_client.py:33
\* and 45]; popleft on an empty deque raises IndexError, which leaves the call.
AcqPop(c) ==
    /\ pc[c] \in {"acq_pop1", "acq_pop2"}
    /\ IF heap[dq[c]] = <<>>
       THEN /\ pc' = [pc EXCEPT ![c] = "idle"]
            /\ ev' = Event("acq_raise", c)
            /\ heap' = heap
       ELSE /\ heap' = [heap EXCEPT ![dq[c]] = Tail(@)]
            /\ pc' = [pc EXCEPT ![c] =
                        IF pc[c] = "acq_pop1" THEN "acq_evict1" ELSE "acq_evict2"]
            /\ ev' = Event("acq_pop", c)
    /\ UNCHANGED <<restOfLimiter, unit, now, store, lim, key, dq, cur, wake, ret, held, appended>>

\* The capacity check and the start of the sleep [llm_client.py:83-88,
\* findsgjobs_client.py:36-41].  time.sleep starts at `now`.
AcqCapacity(c) ==
    /\ pc[c] = "acq_cap"
    /\ LET ts == heap[dq[c]]
           l == lim[c]
       IN  IF AtLimit(Len(ts), LimitOf(l))
           THEN LET wait_time == WaitTime(cur[c], Head(ts), WindowOf(l), EpsilonOf(l))
                IN  IF wait_time > 0
                    THEN /\ wake' = [wake EXCEPT ![c] = now + wait_time]
                         /\ pc' = [pc EXCEPT ![c] = "acq_sleep"]
                    ELSE /\ wake' = wake
                         /\ pc' = [pc EXCEPT ![c] = "acq_append"]
           ELSE /\ wake' = wake
                /\ pc' = [pc EXCEPT ![c] = "acq_append"]
    /\ ev' = Event("acq_cap", c)
    /\ UNCHANGED <<restOfLimiter, unit, now, store, heap, lim, key, dq, cur, ret, held, appended>>

\* time.sleep returns, not before its time; `current_time = time.time()`
\* [llm_client.py:88-90, findsgjobs_client.py:41-43].
AcqWake(c) ==
    /\ pc[c] = "acq_sleep"
    /\ now >= wake[c]
    /\ cur' = [cur EXCEPT ![c] = now]
    /\ pc' = [pc EXCEPT ![c] = "acq_evict2"]
    /\ ev' = Event("acq_wake", c)
    /\ UNCHANGED <<restOfLimiter, unit, now, store, heap, lim, key, dq, wake, ret, held, appended>>

\* The argument of `timestamps.append(time.time())` is evaluated: the clock
\* is read [llm_client.py:95, findsgjobs_client.py:48].  The value read is
\* kept in cur[c] until the append.
AcqStamp(c) ==
    /\ pc[c] = "acq_append"
    /\ cur' = [cur EXCEPT ![c] = now]
    /\ pc' = [pc EXCEPT ![c] = "acq_store"]
    /\ ev' = Event("acq_stamp", c)
    /\ UNCHANGED <<restOfLimiter, unit, now, store, heap, lim, key, dq, wake, ret, held, appended>>

\* Mutant of AcqAppend: the call returns without recording its timestamp.
AcqAppendNone(c) ==
    /\ pc[c] = "acq_store"
    /\ pc' = [pc EXCEPT ![c] = ret[c]]
    /\ cur' = [cur EXCEPT ![c] = 0]
    /\ wake' = [wake EXCEPT ![c] = 0]
    /\ dq' = [dq EXCEPT ![c] = NoDeque]
    /\ held' = [held EXCEPT ![c] = NoTime]
    /\ lim' = [lim EXCEPT ![c] = "ollama"]
    /\ key' = [key EXCEPT ![c] = "m1"]
    /\ ev' = ReturnEvent(c)
    /\ UNCHANGED <<restOfLimiter, unit, now, store, heap, ret, appended>>

\* `timestamps.append(...)` of the value read, and the return
\* [llm_client.py:95, findsgjobs_client.py:48].
AcqAppend(c) ==
    /\ pc[c] = "acq_store"
    /\ heap' = [heap EXCEPT ![dq[c]] = Append(@, cur[c])]
    /\ appended' = Append(appended, cur[c])
    /\ reported' = [reported EXCEPT ![KeyOf(lim[c], key[c])] = NoReport]
    /\ pc' = [pc EXCEPT ![c] = ret[c]]
    /\ cur' = [cur EXCEPT ![c] = 0]
    /\ wake' = [wake EXCEPT ![c] = 0]
    /\ dq' = [dq EXCEPT ![c] = NoDeque]
    /\ held' = [held EXCEPT ![c] = NoTime]
    /\ lim' = [lim EXCEPT ![c] = "ollama"]
    /\ key' = [key EXCEPT ![c] = "m1"]
    /\ ev' = ReturnEvent(c)
    /\ UNCHANGED <<calls, chatVars, jsonVars, loopVars, unit, now, store, ret>>

\* The steps of an acquire in progress.
AcquireStep(c) ==
    \/ AcqKey(c)
    \/ AcqNewKey(c)
    \/ AcqBind(c)
    \/ AcqEvictTest(c)
    \/ AcqPop(c)
    \/ AcqCapacity(c)
    \/ AcqWake(c)
    \/ AcqStamp(c)
    \/ AcqAppend(c)

\* ---------------------- get_ollama_rate_limit_status / get_rate_limit_status

\* Mutant of StatusDict: the remaining count does not look at the window.
StatusDictFull(ts, l) ==
    [requests_in_window |-> Len(ts),
     remaining_requests |-> LimitOf(l),
     rate_limit |-> LimitOf(l),
     window_seconds |-> WindowOf(l)]

\* The dictionary a status call returns [llm_client.py:128-137,
\* findsgjobs_client.py:64-72].
StatusDict(ts, l) ==
    [requests_in_window |-> Len(ts),
     remaining_requests |-> Max(0, LimitOf(l) - Len(ts)),
     rate_limit |-> LimitOf(l),
     window_seconds |-> WindowOf(l)]

\* get_ollama_rate_limit_status(model_name) [llm_client.py:108-137], called
\* by a caller that is in no other call.
StatusOllama(c, m) ==
    /\ unit = "ollama"
    /\ pc[c] = "idle"
    /\ LET fresh == store[m] = NoDeque
           d == IF fresh THEN Len(heap) + 1 ELSE store[m]
           h == IF fresh THEN Append(heap, <<>>) ELSE heap
           ts == EvictAll(h[d], now, OLLAMA_RATE_LIMIT_WINDOW_SECONDS)
       IN  /\ store' = [store EXCEPT ![m] = d]
           /\ heap' = [h EXCEPT ![d] = ts]
           /\ ev' = StatusEvent(c, "ollama", m, StatusDict(ts, "ollama"),
                                Len(h[d]) - Len(ts), fresh)
           /\ reported' = [reported EXCEPT ![m] =
                              StatusDict(ts, "ollama").remaining_requests]
    /\ UNCHANGED <<calls, chatVars, jsonVars, loopVars, unit, now, pc, lim, key, dq, cur, wake, ret,
                   held, appended>>

\* get_rate_limit_status() [findsgjobs_client.py:51-72].
StatusJobsOf(c) ==
    /\ unit = "jobs"
    /\ pc[c] = "idle"
    /\ LET ts == EvictAll(heap[JobsDeque], now, FIND_SGJOBS_RATE_LIMIT_WINDOW)
       IN  /\ heap' = [heap EXCEPT ![JobsDeque] = ts]
           /\ ev' = StatusEvent(c, "jobs", "", StatusDict(ts, "jobs"),
                                Len(heap[JobsDeque]) - Len(ts), FALSE)
           /\ reported' = [reported EXCEPT ![JobsKey] =
                              StatusDict(ts, "jobs").remaining_requests]
    /\ UNCHANGED <<calls, chatVars, jsonVars, unit, now, store, pc, lim, key, dq, cur, wake,
                   ret, held, appended>>

\* A status call made on its own, outside fetch_all_findsgjobs.
StatusJobs(c) == StatusJobsOf(c) /\ UNCHANGED loopVars

\* ----------------------------------------------------- OllamaClient.chat

\* The outcomes a request is tried against.
Outcomes ==
    { Response(200, TRUE),                     \* a completion
      Response(200, FALSE),                    \* JSON without message.content
      Response(404, FALSE),
      Response(405, FALSE),
      Failure("HTTPError", 429, {"429"}),      \* raise_for_status: 429 Client Error
      Failure("HTTPError", 500, {}),           \* raise_for_status: 500 Server Error
      Failure("HTTPError", 503, {"rate limit"}),
      Failure("Timeout", 0, {}),               \* ReadTimeout
      Failure("Timeout", 0, {"Connection"}),   \* ConnectTimeout
      Failure("RequestException", 0, {"Connection", "refused"}),
      Failure("RequestException", 0, {"Connection", "refused", "429"}),
      Failure("RequestException", 0, {"refused"}),
      Failure("RequestException", 0, {"404"}),
      Failure("RequestException", 0, {"Not Found"}),
      Failure("RequestException", 0, {"429"}),
      Failure("RequestException", 0, {"quota"}),
      \* failures whose message tells the caller how long to wait
      Failure("HTTPError", 429, {"429", "retry in 7"}),
      Failure("RequestException", 0, {"seconds: 1"}),
      Failure("RequestException", 0, {}) }      \* e.g. response.json() fails

\* chat returned data["message"]["content"].
Returned == [kind |-> "text", limit |-> 0, cause |-> NoError]

\* chat raised RuntimeError: its kind, the attempt limit its message names
\* (0: none) and the failure whose text its message carries.
Raised(kind, limit, cause) == [kind |-> kind, limit |-> limit, cause |-> cause]

\* Mutant of IsConnectionError: the connection check is skipped.
IsConnectionErrorNever(text) == FALSE

\* `"Connection" in error_msg or "refused" in error_msg.lower()`
\* [llm_client.py:349]
IsConnectionError(text) == "Connection" \in text \/ "refused" \in text

\* Mutant of IsNotFoundText: the not-found check is skipped.
IsNotFoundTextNever(text) == FALSE

\* `"404" in error_msg or "Not Found" in error_msg` [llm_client.py:356]
IsNotFoundText(text) == "404" \in text \/ "Not Found" \in text

\* Mutant of Handle: every outcome is retried while attempts are left.
HandleRetryAll(o, a) ==
    IF a < OLLAMA_MAX_RETRIES - 1 THEN "retry"
    ELSE IF o.kind = "response" /\ o.status = 200 /\ o.content THEN "return"
    ELSE "api_exhausted"

\* Mutant of HasAttemptsLeft: one retry too few.
HasAttemptsLeftShort(a) == a < OLLAMA_MAX_RETRIES - 2

\* `if attempt < OLLAMA_MAX_RETRIES - 1` [llm_client.py:272, 333, 365]
HasAttemptsLeft(a) == a < OLLAMA_MAX_RETRIES - 1

\* Mutant of RetryDelay: the base delay at every attempt.
RetryDelayFlat(a) == OLLAMA_RETRY_DELAY_SECONDS

\* `retry_delay = OLLAMA_RETRY_DELAY_SECONDS * (attempt + 1)`
\* [llm_client.py:273, 334, 366]
RetryDelay(a) == OLLAMA_RETRY_DELAY_SECONDS * (a + 1)

\* `_extract_retry_delay(error_msg)` [llm_client.py:98-105]: the message is
\* not looked at.  chat does not call it.
ExtractRetryDelay(text) == OLLAMA_RETRY_DELAY_SECONDS

\* What one attempt's try/except does with the outcome o [llm_client.py:226-374]:
\* "return", "retry" (sleep and continue) or the kind of RuntimeError raised.
Handle(o, a) ==
    IF o.kind = "response"
    THEN IF o.status = 404 THEN "not_found"                    \* 231-237
         ELSE IF o.status = 405 THEN "method_not_allowed"      \* 240-254
         ELSE IF o.content THEN "return"                       \* 260-261
         ELSE "unexpected_format"                              \* 263
    ELSE IF o.kind = "Timeout"                                 \* 265-300
    THEN IF HasAttemptsLeft(a) THEN "retry" ELSE "timeout_exhausted"
    ELSE IF o.kind = "HTTPError"                               \* 302-342
    THEN IF o.status = 404 THEN "not_found"
         ELSE IF o.status = 405 THEN "method_not_allowed"
         ELSE IF HasAttemptsLeft(a) THEN "retry" ELSE "http_exhausted"
    ELSE IF IsConnectionError(o.text) THEN "not_reachable"     \* 344-353
    ELSE IF IsNotFoundText(o.text) THEN "not_found"            \* 356-362
    ELSE IF HasAttemptsLeft(a) THEN "retry" ELSE "api_exhausted"  \* 365-374

\* The messages "... after {OLLAMA_MAX_RETRIES} attempts ..." name the limit.
NamesLimit(kind) == kind \in {"timeout_exhausted", "http_exhausted", "api_exhausted"}

\* The messages that carry str(e) of the failure [llm_client.py:297, 342, 352, 374].
CarriesCause(kind) == NamesLimit(kind) \/ kind = "not_reachable"

\* chat(system_prompt, user_prompt) is called [llm_client.py:186].
ChatCallOf(c) ==
    /\ unit = "ollama"
    /\ pc[c] = "idle"
    /\ pc' = [pc EXCEPT ![c] = "chat_enter"]
    /\ attempt' = 0
    /\ last_error' = NoError
    /\ result' = NoResult
    /\ reqs' = 0
    /\ acqs' = 0
    /\ sleeps' = <<>>
    /\ all429' = TRUE
    /\ ev' = Event("chat_call", c)
    /\ UNCHANGED <<unit, now, store, heap, lim, key, dq, cur, wake, ret, held,
                   appended, calls, reported, jsonVars>>

\* A chat call made on its own, outside the loops of the pipeline.
ChatCall(c) == ChatCallOf(c) /\ UNCHANGED loopVars

\* `_check_ollama_rate_limit(self.model_name)` [llm_client.py:201], the only
\* acquire of the call: it is outside the retry loop.
ChatAcquire(c) ==
    /\ CallAcquireOllama(c, OLLAMA_MODEL_NAME, "chat_enter", "chat_loop")
    /\ acqs' = acqs + 1
    /\ UNCHANGED <<calls, reported, attempt, last_error, result, reqs, sleeps, all429,
                   jsonVars, loopVars>>

\* One turn of `for attempt in range(OLLAMA_MAX_RETRIES)`: the request and the
\* handling of its outcome [llm_client.py:225-377].
ChatAttempt(c, o) ==
    /\ pc[c] = "chat_loop"
    /\ IF attempt >= OLLAMA_MAX_RETRIES
       THEN \* the loop is over [llm_client.py:377]
            /\ result' = Raised("api_exhausted", OLLAMA_MAX_RETRIES, last_error)
            /\ pc' = [pc EXCEPT ![c] = "idle"]
            /\ UNCHANGED <<last_error, reqs, sleeps, all429, wake>>
       ELSE LET h == Handle(o, attempt)
            IN  /\ reqs' = reqs + 1
                /\ last_error' = IF o.kind = "response" THEN last_error ELSE o
                /\ all429' = (all429 /\ "429" \in o.text)
                /\ IF h = "retry"
                   THEN /\ sleeps' = Append(sleeps, RetryDelay(attempt))
                        /\ wake' = [wake EXCEPT ![c] = now + RetryDelay(attempt)]
                        /\ pc' = [pc EXCEPT ![c] = "chat_sleep"]
                        /\ result' = result
                   ELSE /\ sleeps' = sleeps
                        /\ wake' = wake
                        /\ pc' = [pc EXCEPT ![c] = "idle"]
                        /\ result' =
                             IF h = "return" THEN Returned
                             ELSE Raised(h,
                                         IF NamesLimit(h) THEN OLLAMA_MAX_RETRIES ELSE 0,
                                         IF CarriesCause(h) THEN o ELSE NoError)
    /\ ev' = [Event("chat_attempt", c) EXCEPT !.out = o]
    /\ UNCHANGED <<unit, now, store, heap, lim, key, dq, cur, ret, held, appended,
                   calls, reported, attempt, acqs, jsonVars, loopVars>>

\* time.sleep(retry_delay) returns and the loop continues
\* [llm_client.py:279-280, 339-340, 371-372].
ChatWake(c) ==
    /\ pc[c] = "chat_sleep"
    /\ now >= wake[c]
    /\ attempt' = attempt + 1
    /\ wake' = [wake EXCEPT ![c] = 0]
    /\ pc' = [pc EXCEPT ![c] = "chat_loop"]
    /\ ev' = Event("chat_wake", c)
    /\ UNCHANGED <<unit, now, store, heap, lim, key, dq, cur, ret, held, appended,
                   calls, reported, last_error, result, reqs, acqs, sleeps, all429,
                   jsonVars, loopVars>>

\* ------------------------------------------------- the extraction calls

\* chat_json(system_prompt, user_prompt), from the return of self.chat on
\* [llm_client.py:485-609].
ChatJson ==
    /\ extracted' = ChatJsonOf(response_text)
    /\ UNCHANGED <<limiterVars, calls, reported, chatVars, response_text, made, loopVars>>

\* chat_json_array(system_prompt, user_prompt), from the return of self.chat
\* on [llm_client.py:625-688].
ChatJsonArray ==
    /\ extracted' = ChatJsonArrayOf(response_text)
    /\ UNCHANGED <<limiterVars, calls, reported, chatVars, response_text, made, loopVars>>

\* The repair pass of chat_json on a text that did not parse: _repair_json,
\* json.loads, `isinstance(parsed, dict)` [llm_client.py:565-575].
RepairPass ==
    /\ ~Loads(response_text).ok
    /\ extracted' =
          LET repaired_text == RepairJson(response_text)
              parsed == Loads(repaired_text)
          IN  IF parsed.ok /\ parsed.v.t = "dict"
              THEN [Returns("_repair_json", parsed.v) EXCEPT !.attempted = repaired_text]
              ELSE Raises("_repair_json", "malformed", IsIncomplete(response_text),
                          repaired_text)
    /\ UNCHANGED <<limiterVars, calls, reported, chatVars, response_text, made, loopVars>>

\* _extract_json_objects(text) [llm_client.py:425-469].
ExtractObjects ==
    /\ extracted' = Returns("_extract_json_objects",
                            JList(ExtractJsonObjects(response_text)))
    /\ UNCHANGED <<limiterVars, calls, reported, chatVars, response_text, made, loopVars>>

\* ------------------------- pipeline.py: step 2, the skill extraction loop

\* The two functions that run the loop [pipeline.py:71-90, 222-241].
PipelineFunctions == {"run_job_matching_pipeline", "run_skill_gap_analysis_only"}

\* What the requests of the loop's LLM calls meet: a completion, an HTTP 429,
\* a refused connection.
PipeOutcomes ==
    { Response(200, TRUE),
      Failure("HTTPError", 429, {"429"}),
      Failure("RequestException", 0, {"Connection", "refused"}) }

\* What chat_json makes of the completion chat returned: it returns a mapping
\* or raises ValueError [llm_client.py:491-609].
PipeParses == {"mapping", "ValueError"}

\* `"429" in error_msg or "quota" in error_msg.lower() or "rate limit" in
\* error_msg.lower()` [pipeline.py:81, 232]
IsRateLimitText(text) == "429" \in text \/ "quota" \in text \/ "rate limit" \in text

\* The LLM call of a skill extraction failed with a rate-limit error: chat
\* raised and the message of its error has a rate-limit text.
RateLimited(res) == res.kind \notin {"none", "text"} /\ IsRateLimitText(res.cause.text)

\* extract_skills_from_job(job, llm) once chat has ended with res, parsed
\* being what chat_json makes of the completion if chat returned one
\* [junior_researchers.py:122-141]: the skills of the mapping chat_json
\* returns, or, in `except Exception`, the minimal skills.  No exception of
\* the LLM call leaves the function.
ExtractSkillsFromJob(res, parsed) ==
    IF res.kind = "text" /\ parsed = "mapping"
    THEN [raised |-> FALSE, skills |-> "skills", text |-> {}]
    ELSE [raised |-> FALSE, skills |-> "minimal", text |-> {}]

\* A pipeline function reaches step 2 with MaxJobs normalized jobs
\* [pipeline.py:67-71, 218-222].
PipeStart(c, fn) ==
    /\ unit = "ollama"
    /\ pipe.pos = "none"
    /\ pc[c] = "idle"
    /\ pipe' = [NoPipe EXCEPT !.pos = "loop", !.fn = fn, !.idx = 1]
    /\ ev' = Event("pipe_start", c)
    /\ UNCHANGED <<unit, now, store, heap, pc, lim, key, dq, cur, wake, ret, held,
                   appended, calls, reported, chatVars, jsonVars, fetch>>

\* `if idx > 0: time.sleep(0.5)`, one tick [pipeline.py:74-75, 225-226].
PipeSleep(c) ==
    /\ pipe.pos = "loop"
    /\ pipe.idx \in 2..MaxJobs
    /\ pipe' = [pipe EXCEPT !.pos = "sleep", !.wake = now + 1]
    /\ ev' = Event("pipe_sleep", c)
    /\ UNCHANGED <<unit, now, store, heap, pc, lim, key, dq, cur, wake, ret, held,
                   appended, calls, reported, chatVars, jsonVars, fetch>>

\* `skills = extract_skills_from_job(job, llm)` is called and calls
\* llm.chat_json, which calls self.chat [pipeline.py:76, 227;
\* junior_researchers.py:123; llm_client.py:485].
PipeCall(c) ==
    /\ \/ pipe.pos = "loop" /\ pipe.idx = 1
       \/ pipe.pos = "sleep" /\ now >= pipe.wake
    /\ ChatCallOf(c)
    /\ pipe' = [pipe EXCEPT !.pos = "call", !.tried = Append(@, pipe.idx)]
    /\ UNCHANGED fetch

\* chat has returned or raised: extract_skills_from_job returns, the loop
\* stores the skills and goes to the next job; on an exception it stops at a
\* rate-limit text and goes on otherwise [pipeline.py:76-90, 227-241].
PipeReturn(c, parsed) ==
    /\ pipe.pos = "call"
    /\ pc[c] = "idle"
    /\ result.kind # "none"
    /\ LET out == ExtractSkillsFromJob(result, parsed)
       IN  pipe' = [pipe EXCEPT
                      !.job_skills[pipe.idx] = IF out.raised THEN @ ELSE out.skills,
                      !.limited = Append(@, RateLimited(result)),
                      !.idx = @ + 1,
                      !.pos = IF out.raised /\ IsRateLimitText(out.text)
                              THEN "done" ELSE "loop"]
    /\ ev' = Event("pipe_return", c)
    /\ UNCHANGED <<unit, now, store, heap, pc, lim, key, dq, cur, wake, ret, held,
                   appended, calls, reported, chatVars, jsonVars, fetch>>

\* The loop has gone through every job [pipeline.py:71, 222].
PipeEnd(c) ==
    /\ pipe.pos = "loop"
    /\ pipe.idx > MaxJobs
    /\ pipe' = [pipe EXCEPT !.pos = "done"]
    /\ ev' = Event("pipe_end", c)
    /\ UNCHANGED <<unit, now, store, heap, pc, lim, key, dq, cur, wake, ret, held,
                   appended, calls, reported, chatVars, jsonVars, fetch>>

\* ------------------------------ findsgjobs_client.py: fetch_all_findsgjobs

\* What the request of a page meets: a page with jobs, a page without, a 429
\* response, a 500 response, a 500 response to a URL that holds "429" (the
\* text of raise_for_status ends with the URL of the request), a timeout, a
\* body that is no JSON.
FetchOutcomes ==
    { Response(200, TRUE),
      Response(200, FALSE),
      Failure("HTTPError", 429, {"Rate limit", "429"}),
      Failure("HTTPError", 500, {}),
      Failure("HTTPError", 500, {"429"}),
      Failure("Timeout", 0, {}),
      Failure("ValueError", 0, {}) }

\* `"429" in str(e) or "Rate limit" in str(e)` [findsgjobs_client.py:325]
IsRateLimitError(text) == "429" \in text \/ "Rate limit" \in text

\* What the loop does with the outcome of a page [findsgjobs_client.py:
\* 199-333]: "extend" (add the jobs, next page), "break" or "raise".
HandlePage(o) ==
    IF o.kind = "response" THEN IF o.content THEN "extend" ELSE "break"   \* 270-279
    ELSE IF o.kind = "HTTPError"                                          \* 323-328
    THEN IF IsRateLimitError(o.text) THEN "break" ELSE "raise"
    ELSE "break"                                                          \* 329-331

\* fetch_all_findsgjobs is called; it calls get_rate_limit_status
\* [findsgjobs_client.py:177-197].
FetchStart(c) ==
    /\ fetch.pos = "none"
    /\ StatusJobsOf(c)
    /\ fetch' = [NoFetch EXCEPT !.pos = "loop", !.page = 1]
    /\ UNCHANGED pipe

\* `data = search_findsgjobs(page=page, **kwargs)`, which calls
\* _check_rate_limit() before its request [findsgjobs_client.py:201, 144].
FetchAcquire(c) ==
    /\ fetch.pos = "loop"
    /\ fetch.page <= MaxPages
    /\ CallAcquireJobsOf(c)
    /\ fetch' = [fetch EXCEPT !.pos = "request"]
    /\ UNCHANGED pipe

\* The request of the page and what the loop does with its outcome
\* [findsgjobs_client.py:146-174, 201-331].
FetchPage(c, o) ==
    /\ fetch.pos = "request"
    /\ pc[c] = "idle"
    /\ LET h == HandlePage(o)
       IN  fetch' = [fetch EXCEPT
                       !.requested = Append(@, fetch.page),
                       !.all_jobs = IF h = "extend" THEN Append(@, fetch.page) ELSE @,
                       !.page = IF h = "extend" THEN @ + 1 ELSE @,
                       !.pos = IF h = "extend" THEN "loop" ELSE "done",
                       !.ended = IF h = "extend" THEN @
                                 ELSE IF h = "break" THEN "returned" ELSE "raised",
                       !.status = IF h = "raise" THEN o.status ELSE @]
    /\ ev' = [Event("fetch_page", c) EXCEPT !.out = o]
    /\ UNCHANGED <<unit, now, store, heap, pc, lim, key, dq, cur, wake, ret, held,
                   appended, calls, reported, chatVars, jsonVars, pipe>>

\* The loop has gone through max_pages pages: `return all_jobs`
\* [findsgjobs_client.py:333].
FetchEnd(c) ==
    /\ fetch.pos = "loop"
    /\ fetch.page > MaxPages
    /\ fetch' = [fetch EXCEPT !.pos = "done", !.ended = "returned"]
    /\ ev' = Event("fetch_end", c)
    /\ UNCHANGED <<unit, now, store, heap, pc, lim, key, dq, cur, wake, ret, held,
                   appended, calls, reported, chatVars, jsonVars, pipe>>

\* -------------------------------------------------------- specifications

\* One caller: acquires and status calls on both limiters, time passing
\* between any two steps.
CallAcquire(c, m) == CallAcquireOllama(c, m, "idle", "idle") /\ UNCHANGED restOfLimiter

NextLimiter ==
    \/ Tick(MaxTime)
    \/ \E m \in Models : CallAcquire("c1", m)
    \/ CallAcquireJobs("c1")
    \/ AcquireStep("c1")
    \/ \E m \in Models : StatusOllama("c1", m)
    \/ StatusJobs("c1")

SpecLimiter == InitLimiter /\ [][NextLimiter]_vars

\* One caller whose steps are taken: the thread that runs an acquire keeps
\* running (every step of the call that stays possible is taken), and time
\* passes, so that a time.sleep ends.  No acquire is called after
\* MaxTimeLive; the clock runs on from there until a sleeping caller wakes.
Horizon ==
    IF pc["c1"] = "acq_sleep" THEN Max(MaxTimeLive, wake["c1"]) ELSE MaxTimeLive

TickLive == Tick(Horizon)

CallAcquireLive(c, m) == now <= MaxTimeLive /\ CallAcquire(c, m)

CallAcquireJobsLive(c) == now <= MaxTimeLive /\ CallAcquireJobs(c)

NextLive ==
    \/ TickLive
    \/ CallAcquireLive("c1", OLLAMA_MODEL_NAME)
    \/ CallAcquireJobsLive("c1")
    \/ AcquireStep("c1")

SpecLive ==
    /\ InitLimiter
    /\ [][NextLive]_vars
    /\ WF_vars(TickLive)
    /\ WF_vars(AcquireStep("c1"))

\* Two callers (threads) in _check_ollama_rate_limit on the same key.  The
\* code takes no lock: the steps of the two calls interleave freely.
CallAcquireConc(c) ==
    /\ calls[c] < MaxCallsConc
    /\ calls' = [calls EXCEPT ![c] = @ + 1]
    /\ CallAcquireOllama(c, "m1", "idle", "idle")
    /\ UNCHANGED <<reported, chatVars, jsonVars, loopVars>>

NextConc ==
    \/ Tick(MaxTimeConc)
    \/ \E c \in Callers : CallAcquireConc(c)
    \/ \E c \in Callers : AcquireStep(c)

SpecConc == InitConc /\ [][NextConc]_vars

\* One caller of OllamaClient.chat; every request meets any of the outcomes.
NextChat ==
    \/ Tick(MaxTimeChat)
    \/ ChatCall("c1")
    \/ ChatAcquire("c1")
    \/ AcquireStep("c1")
    \/ \E o \in Outcomes : ChatAttempt("c1", o)
    \/ ChatWake("c1")

SpecChat == InitConc /\ [][NextChat]_vars

\* One caller of chat whose steps are taken: the thread keeps running, every
\* requests.post returns or raises (it is given timeout=OLLAMA_TIMEOUT_SECONDS,
\* llm_client.py:228), and time passes, so that a time.sleep ends.  No chat is
\* called after MaxTimeChatLive; the clock runs on from there until a
\* sleeping caller wakes.
HorizonChat ==
    IF pc["c1"] \in {"acq_sleep", "chat_sleep"}
    THEN Max(MaxTimeChatLive, wake["c1"])
    ELSE MaxTimeChatLive

TickChatLive == Tick(HorizonChat)

ChatCallLive(c) == now <= MaxTimeChatLive /\ ChatCall(c)

ChatStep(c) ==
    \/ ChatAcquire(c)
    \/ AcquireStep(c)
    \/ \E o \in Outcomes : ChatAttempt(c, o)
    \/ ChatWake(c)

NextChatLive ==
    \/ TickChatLive
    \/ ChatCallLive("c1")
    \/ ChatStep("c1")

SpecChatLive ==
    /\ InitConc
    /\ [][NextChatLive]_vars
    /\ WF_vars(TickChatLive)
    /\ WF_vars(ChatStep("c1"))

\* One run of the skill extraction loop of a pipeline function.  Time passes
\* while the caller sleeps and while it waits for the answer to a request.
Waiting(c) == pc[c] \in {"acq_sleep", "chat_sleep", "chat_loop"} \/ pipe.pos = "sleep"

TickPipe == Waiting("c1") /\ Tick(MaxTimePipe)

NextPipe ==
    \/ TickPipe
    \/ \E fn \in PipelineFunctions : PipeStart("c1", fn)
    \/ PipeSleep("c1")
    \/ PipeCall("c1")
    \/ ChatAcquire("c1")
    \/ AcquireStep("c1")
    \/ \E o \in PipeOutcomes : ChatAttempt("c1", o)
    \/ ChatWake("c1")
    \/ \E parsed \in PipeParses : PipeReturn("c1", parsed)
    \/ PipeEnd("c1")

SpecPipe == InitConc /\ [][NextPipe]_vars

\* One call of fetch_all_findsgjobs.
InitFetch == unit = "jobs" /\ InitShared /\ InitNoText

\* The steps of _check_rate_limit(), which has no keys.
AcquireStepJobs(c) ==
    \/ AcqBind(c)
    \/ AcqEvictTest(c)
    \/ AcqPop(c)
    \/ AcqCapacity(c)
    \/ AcqWake(c)
    \/ AcqStamp(c)
    \/ AcqAppend(c)

NextFetch ==
    \/ Tick(MaxTimeFetch)
    \/ FetchStart("c1")
    \/ FetchAcquire("c1")
    \/ AcquireStepJobs("c1")
    \/ \E o \in FetchOutcomes : FetchPage("c1", o)
    \/ FetchEnd("c1")

SpecFetch == InitFetch /\ [][NextFetch]_vars

\* The extraction functions applied to the completions of the model.
NextJson ==
    \/ ChatJson
    \/ ChatJsonArray
    \/ RepairPass
    \/ ExtractObjects

SpecJson == InitJson /\ [][NextJson]_vars

\* ------------------------------------------------------------------ claims

\* The deque of the limiter and key an event names.
EventWindow == IF ev.l = "jobs" THEN heap[JobsDeque] ELSE Window(ev.m)

\* C1: with one caller, an acquire called while N timestamps were inside the
\* window does not return before the oldest of them has expired (it is more
\* than W old at the return), and when an acquire returns the window of its
\* key holds at most N timestamps (both limiters).
C1_AcquireWaitsForOldest ==
    ev.op = "acq_return" =>
        /\ ev.held # NoTime => Expired(now, ev.held, WindowOf(ev.l))
        /\ Len(EventWindow) <= LimitOf(ev.l)

\* C1, witness: an acquire that found the window full returns at the first
\* instant allowed, W + epsilon after the oldest timestamp, the window full again.
C1_Witness ==
    /\ ev.op = "acq_return"
    /\ ev.held # NoTime
    /\ now - ev.held = WindowOf(ev.l) + EpsilonOf(ev.l)
    /\ Len(EventWindow) = LimitOf(ev.l)

\* C6: with concurrent callers on one key, the window never holds more than N
\* timestamps inside the trailing W ticks, and the timestamps recorded inside
\* the trailing W ticks are exactly those the acquires appended (none lost,
\* none counted twice).
C6_ConcurrentWindow ==
    LET W == OLLAMA_RATE_LIMIT_WINDOW_SECONDS
        inw == InWindow(Window("m1"), now, W)
    IN  /\ Len(inw) <= OLLAMA_RATE_LIMIT_REQUESTS_PER_MINUTE
        /\ inw = InWindow(appended, now, W)

\* C10 as stated: a status call leaves the timestamp store as it found it.
C10_StatusReadOnly ==
    [][(ev'.op = "status" /\ ev'.l = "ollama") => (store' = store /\ heap' = heap)]_vars

\* C10, amended: a status call on key m appends nothing and leaves every other
\* key and deque alone; it may create the empty deque of m, and it removes
\* from the front of m's window only timestamps more than W old: the
\* timestamps at most W old stay exactly as they were.
C10_StatusFrame ==
    [][(ev'.op = "status" /\ ev'.l = "ollama") =>
        LET m == ev'.m
            W == OLLAMA_RATE_LIMIT_WINDOW_SECONDS
            before == Window(m)
            after == IF store'[m] = NoDeque THEN <<>> ELSE heap'[store'[m]]
            n == Len(before) - Len(after)
        IN  /\ \A k \in Models \ {m} : store'[k] = store[k]
            /\ store[m] # NoDeque => store'[m] = store[m]
            /\ \A d \in 1..Len(heap) : d # store[m] => heap'[d] = heap[d]
            /\ store'[m] # NoDeque
            /\ n >= 0
            /\ after = SubSeq(before, n + 1, Len(before))
            /\ \A i \in 1..n : now - before[i] > W
            /\ InWindow(after, now, W) = InWindow(before, now, W)
      ]_vars

\* C10, witness: a status call has evicted stale timestamps of its key and
\* kept a timestamp that is still inside the window.
C10_Witness ==
    /\ ev.op = "status"
    /\ ev.l = "ollama"
    /\ ev.evicted > 0
    /\ ev.status.requests_in_window > 0

\* The text of a failure has a rate-limit/quota indicator.
HasRateLimitIndicator(text) == "429" \in text \/ "quota" \in text \/ "rate limit" \in text

\* The attempt failed: anything but a 200 response with message.content.
FailedAttempt(o) == ~(o.kind = "response" /\ o.status = 200 /\ o.content)

\* The chat call of c1 has ended by raising.
ChatRaised == pc["c1"] = "idle" /\ result.kind \notin {"none", "text"}

C2_Retried(o) ==
    \/ o.kind = "Timeout"
    \/ o.kind = "HTTPError" /\ o.status \notin {404, 405}
    \/ /\ o.kind = "RequestException"
       /\ o.text \cap {"Connection", "refused", "404", "Not Found"} = {}

C3_All429Exhausts ==
    (ev.op = "chat_attempt" /\ ChatRaised /\ all429) =>
        /\ reqs = OLLAMA_MAX_RETRIES
        /\ result.limit = OLLAMA_MAX_RETRIES
        /\ result.cause = ev.out

\* C3, amended: the same, for failures with "429" in their text that are no
\* connection or not-found errors (a timeout, an HTTP error of status 429, or
\* a request error with none of "Connection", "refused", "404", "Not Found").
\* Every failure before the last was retried, so it is of that class already.
C3_Retried429Exhausts ==
    (ev.op = "chat_attempt" /\ ChatRaised /\ all429 /\ C2_Retried(ev.out)) =>
        /\ reqs = OLLAMA_MAX_RETRIES
        /\ Len(sleeps) = OLLAMA_MAX_RETRIES - 1
        /\ result.limit = OLLAMA_MAX_RETRIES
        /\ result.cause = ev.out

\* C3, witness: three HTTP 429 failures in a row; chat has raised.
C3_Witness ==
    /\ ev.op = "chat_attempt"
    /\ ev.out = Failure("HTTPError", 429, {"429"})
    /\ all429
    /\ reqs = OLLAMA_MAX_RETRIES
    /\ result = Raised("http_exhausted", OLLAMA_MAX_RETRIES, ev.out)

\* A connection-refused style error, a 404 or a 405 response.
C4_Fatal(o) ==
    \/ o.kind = "response" /\ o.status \in {404, 405}
    \/ o.kind = "RequestException" /\ "refused" \in o.text

\* C4: a connection-refused error, a 404 or a 405 propagates at the attempt
\* where it occurs, whatever the attempt index: no request and no sleep
\* follows it, so a call whose first request fails so issues one request.
C4_FatalPropagatesAtOnce ==
    (ev.op = "chat_attempt" /\ C4_Fatal(ev.out)) =>
        /\ ChatRaised
        /\ result.kind \in {"not_reachable", "not_found", "method_not_allowed"}
        /\ reqs = attempt + 1
        /\ Len(sleeps) = attempt
        /\ attempt = 0 => reqs = 1

\* C4, witness: two attempts were retried and the third is refused, with an
\* attempt index that would not have allowed a retry either.
C4_Witness ==
    /\ ev.op = "chat_attempt"
    /\ ev.out = Failure("RequestException", 0, {"Connection", "refused"})
    /\ attempt = 2
    /\ reqs = 3
    /\ result.kind = "not_reachable"

\* C5: every request of a chat call is preceded by its own acquire, so the
\* call has acquired at least as often as it has posted.
C5_AcquirePerRequest == reqs <= acqs

\* ----------------------------------------------------- extraction claims

\* The completion holds the whole object.
Whole == made.keep = Len(made.body) /\ made.body \in Objects

\* C7: for a completion that is one valid JSON object in prose and/or in a
\* fence, chat_json returns the mapping that parsing the object alone gives.
C7_ChatJsonFindsObject ==
    (extracted.op = "chat_json" /\ Whole) =>
        /\ extracted.kind = "return"
        /\ extracted.v = Loads(made.body).v

\* C8: for a completion with exactly one JSON object and no top-level array
\* (the object in plain prose and/or in a fence, its values arrays or not),
\* chat_json_array returns the list whose only element is that object.
C8_ArrayOfOneObject ==
    (/\ extracted.op = "chat_json_array"
     /\ Whole
     /\ made.pre \in PlainProse
     /\ made.post \in PlainProse) =>
        /\ extracted.kind = "return"
        /\ extracted.v = JList(<<Loads(made.body).v>>)

\* The first k characters of s end inside a string literal.
RECURSIVE MidString(_, _, _)
MidString(s, i, k) ==
    IF i > k THEN FALSE
    ELSE IF s[i] = QUOTE
    THEN LET r == ScanString(s, i + 1, <<>>)
         IN  IF r.ok /\ r.i - 1 <= k THEN MidString(s, r.i, k) ELSE TRUE
    ELSE MidString(s, i + 1, k)

\* The characters of s after the first k are one to three closing delimiters.
MissingClosers(s, k) ==
    /\ Len(s) - k \in 1..3
    /\ \A i \in (k + 1)..Len(s) : s[i] \in {"}", "]"}

\* The keys of the object s (at its top level) whose string literal ends
\* within the first k characters.
RECURSIVE WrittenKeys(_, _, _, _, _, _)
WrittenKeys(s, i, k, depth, keyPlace, keys) ==
    IF i > k THEN keys
    ELSE IF s[i] = QUOTE
    THEN LET r == ScanString(s, i + 1, <<>>)
         IN  IF r.ok /\ r.i - 1 <= k
             THEN WrittenKeys(s, r.i, k, depth, keyPlace,
                              IF depth = 1 /\ keyPlace THEN keys \cup {r.v.s} ELSE keys)
             ELSE keys
    ELSE IF s[i] \in {"{", "["} THEN WrittenKeys(s, i + 1, k, depth + 1, depth = 0, keys)
    ELSE IF s[i] \in {"}", "]"} THEN WrittenKeys(s, i + 1, k, depth - 1, FALSE, keys)
    ELSE IF s[i] = "," THEN WrittenKeys(s, i + 1, k, depth, depth = 1, keys)
    ELSE IF s[i] = ":" THEN WrittenKeys(s, i + 1, k, depth, FALSE, keys)
    ELSE WrittenKeys(s, i + 1, k, depth, keyPlace, keys)

\* C9: for an object text cut inside a string, or missing its last one to
\* three closing delimiters, with at least one key written in full before the
\* cut, the repair pass yields a mapping that has every key written in full
\* before the cut.
C9_RepairKeepsWrittenKeys ==
    LET written == WrittenKeys(made.body, 1, made.keep, 0, FALSE, {})
    IN  (/\ extracted.op = "_repair_json"
         /\ made.body \in Objects
         /\ made.keep < Len(made.body)
         /\ MidString(made.body, 1, made.keep) \/ MissingClosers(made.body, made.keep)
         /\ written # {}) =>
            /\ extracted.kind = "return"
            /\ written \subseteq Keys(extracted.v)

\* C11 as stated: a status call that follows a status call on the same key,
\* no acquire having appended to the key in between, reports the remaining
\* count the earlier call reported, however much time has passed.
C11_StatusSameRemaining ==
    (ev.op = "status" /\ ev.prev # NoReport) =>
        ev.status.remaining_requests = ev.prev

\* C11, amended: with one caller, a status call that follows a status call on
\* the same key with no acquire in between reports the earlier remaining count
\* plus the number of timestamps that have become more than W old since (the
\* ones it evicts): the count never decreases, and it is the same exactly
\* when no timestamp of the key has expired between the two calls.
C11_StatusRemainingGrows ==
    (ev.op = "status" /\ ev.prev # NoReport) =>
        ev.status.remaining_requests = ev.prev + ev.evicted

\* C11, witness: the second of two status calls with no acquire in between
\* reports more remaining requests than the first, time having passed.
C11_Witness ==
    /\ ev.op = "status"
    /\ ev.prev # NoReport
    /\ ev.evicted > 0
    /\ ev.status.remaining_requests > ev.prev

AfterWait == {"acq_evict2", "acq_pop2", "acq_append", "acq_store"}

NoDelay == 0 - 1

EmbeddedDelay(text) ==
    IF "retry in 7" \in text THEN 7
    ELSE IF "seconds: 1" \in text THEN 1
    ELSE NoDelay

\* C14: when chat retries after a failure whose message embeds a wait, the
\* backoff it sleeps before the next attempt is at least the embedded wait
\* (the embedded value plus a buffer, which is not negative).
C14_EmbeddedDelayUsed ==
    (/\ ev.op = "chat_attempt"
     /\ pc["c1"] = "chat_sleep"
     /\ EmbeddedDelay(ev.out.text) # NoDelay) =>
        sleeps[Len(sleeps)] >= EmbeddedDelay(ev.out.text)

\* What the whole completion parses to, if it is one JSON text.
Completion == Loads(response_text)

\* The completion is a JSON scalar (a number or a string).
IsScalar == Completion.ok /\ Completion.v.t \in {"str", "number"}

\* The completion is a JSON array whose first element is not a mapping.
IsListOfOther ==
    /\ Completion.ok
    /\ Completion.v.t = "list"
    /\ Len(Completion.v.a) > 0
    /\ Completion.v.a[1].t # "dict"

\* C15 as stated: whatever chat_json returns is a mapping, and on a
\* completion that parses to a bare scalar, or to a list whose first element
\* is not a mapping, chat_json raises.
C15_ChatJsonMappingOrRaise ==
    extracted.op = "chat_json" =>
        /\ extracted.kind = "return" => extracted.v.t = "dict"
        /\ (IsScalar \/ IsListOfOther) => extracted.kind = "raise"

\* C15, amended: whatever chat_json returns is a mapping; it raises on a
\* completion that parses to a list whose first element is not a mapping,
\* and on one that parses to a scalar in which no "{" comes before a "}"
\* (completions without a fence marker).  A string scalar that holds an
\* object text is handled like prose around the object.
C15_ChatJsonMappingOrRaiseUnlessBraces ==
    extracted.op = "chat_json" =>
        /\ extracted.kind = "return" => extracted.v.t = "dict"
        /\ (/\ ~Contains(response_text, FENCE)
            /\ \/ IsListOfOther
               \/ IsScalar /\ Span(response_text, "{", "}") = <<>>) =>
                extracted.kind = "raise"

\* C15, witness: chat_json has raised on a completion that is an array whose
\* first element is a scalar and whose second element is a mapping.
C15_Witness ==
    /\ extracted.op = "chat_json"
    /\ extracted.kind = "raise"
    /\ IsListOfOther
    /\ Len(Completion.v.a) = 2
    /\ Completion.v.a[2].t = "dict"

\* C16: whatever chat_json_array returns is a list all of whose elements are
\* mappings (so a top-level array with a scalar or an array among its
\* elements is not returned as it is).
C16_ArrayOfMappings ==
    (extracted.op = "chat_json_array" /\ extracted.kind = "return") =>
        /\ extracted.v.t = "list"
        /\ \A i \in 1..Len(extracted.v.a) : extracted.v.a[i].t = "dict"

\* C17: on an empty or whitespace-only completion chat_json and
\* chat_json_array raise the empty-response error, not the error of the
\* extraction stages (no text was attempted), and the call makes no request
\* and leaves the completion as it is.
C17_EmptyRaisesAtOnce ==
    [][(/\ extracted'.op \in {"chat_json", "chat_json_array"}
        /\ Strip(response_text) = <<>>) =>
            /\ extracted'.kind = "raise"
            /\ extracted'.error = "empty"
            /\ extracted'.attempted = <<>>
            /\ UNCHANGED <<chatVars, response_text>>
      ]_vars

\* C17, witness: chat_json_array has raised the empty-response error on a
\* completion of whitespace.
C17_Witness ==
    /\ extracted.op = "chat_json_array"
    /\ extracted.error = "empty"
    /\ Len(response_text) > 1
    /\ Strip(response_text) = <<>>

\* C18: the error chat_json and chat_json_array raise when every stage has
\* failed quotes the length of the original completion and the text that was
\* attempted (a part of the completion), and it says that the text looks
\* truncated exactly when the text attempted has more opening than closing
\* braces or brackets.
C18_TerminalErrorTells ==
    (/\ extracted.op \in {"chat_json", "chat_json_array"}
     /\ extracted.error = "malformed") =>
        /\ extracted.length = Len(response_text)
        /\ Contains(response_text, extracted.attempted)
        /\ extracted.incomplete = IsIncomplete(extracted.attempted)

\* The stages of the chain on the completion, for chat_json (shape "dict",
\* boundaries { }) and for chat_json_array (shape "list", boundaries [ ]):
\* the text after fence stripping, the text after boundary slicing, its
\* parse, the parse of its repair, and the objects a scan collects.
Stripped == FenceStrip(response_text)

Sliced(open, close) ==
    IF Span(Stripped, open, close) # <<>> THEN Span(Stripped, open, close) ELSE Stripped

\* The stages in the order fence stripping, boundary slicing and parse,
\* repair pass, scan-and-collect: the result r is that of the first stage
\* that yields a parse of the shape asked for.
FirstStage(r, shape, sliced, scanned, wrap) ==
    LET parsed == Loads(sliced)
        repaired == Loads(RepairJson(sliced))
        objects == ExtractJsonObjects(scanned)
        fixed == repaired.ok /\ repaired.v.t = shape
    IN  /\ (parsed.ok /\ parsed.v.t = shape) => (r.kind = "return" /\ r.v = parsed.v)
        /\ (~parsed.ok /\ fixed) => (r.kind = "return" /\ r.v = repaired.v)
        /\ (~parsed.ok /\ ~fixed /\ objects # <<>>) =>
              (r.kind = "return" /\ r.v = IF wrap THEN JList(objects) ELSE objects[1])
        /\ (~parsed.ok /\ ~fixed /\ objects = <<>>) => r.kind = "raise"

\* C19: on a completion that is not blank, chat_json (when the text does not
\* open with an array) and chat_json_array return what the first of the
\* stages boundary slicing and parse, repair pass, scan-and-collect yields,
\* in this order, on the fence-stripped text, and raise when none yields
\* anything.
C19_StagesInOrder ==
    /\ (/\ extracted.op = "chat_json"
        /\ ~IsEmptyResponse(response_text)
        /\ At(Strip(Stripped), 1) # "[") =>
            FirstStage(extracted, "dict", Sliced("{", "}"), Sliced("{", "}"), FALSE)
    /\ (/\ extracted.op = "chat_json_array"
        /\ ~IsEmptyResponse(response_text)) =>
            FirstStage(extracted, "list", Sliced("[", "]"), Stripped, TRUE)

\* The sequence ts never steps down.
NonDecreasing(ts) == \A i, j \in 1..Len(ts) : i < j => ts[i] <= ts[j]

\* C20: with concurrent callers on one key, the window of every key lists
\* its timestamps in chronological order (no timestamp is followed by an
\* earlier one; two equal clock readings are let pass), so that the
\* timestamps more than W old are the first ones of the window.
C20_WindowChronological ==
    \A m \in Models :
        /\ NonDecreasing(Window(m))
        /\ \A i, j \in 1..Len(Window(m)) :
              (i < j /\ Expired(now, Window(m)[j], OLLAMA_RATE_LIMIT_WINDOW_SECONDS)) =>
                  Expired(now, Window(m)[i], OLLAMA_RATE_LIMIT_WINDOW_SECONDS)

\* The completion is a whole JSON array with nothing before it and no fence.
BareArray ==
    /\ made.body \in {v \in Values : v[1] = "["}
    /\ made.keep = Len(made.body)
    /\ made.pre = <<>>
    /\ made.fence = "none"

\* C21: on a bare JSON array, also when text that is not JSON follows its
\* closing bracket, chat_json_array returns the array unchanged (the same
\* elements in the same order).
C21_BareArrayUnchanged ==
    (extracted.op = "chat_json_array" /\ BareArray) =>
        /\ extracted.kind = "return"
        /\ extracted.v = Loads(made.body).v

\* The list the completion is, when the completion is a JSON array and
\* nothing else.
ArrayAlone == BareArray /\ made.post = <<>>

FirstIsMapping(items) == Len(items) >= 1 /\ items[1].t = "dict"

\* C22: on a completion that is a JSON array, chat_json returns the first
\* element when that element is a mapping, whatever the length of the array,
\* and raises only when the array is empty or its first element is not a
\* mapping.
C22_FirstElementOfArray ==
    (extracted.op = "chat_json" /\ ArrayAlone) =>
        LET items == Loads(made.body).v.a
        IN  IF FirstIsMapping(items)
            THEN extracted.kind = "return" /\ extracted.v = items[1]
            ELSE extracted.kind = "raise" /\ extracted.error \in {"array", "not_a_dict"}

\* The '{' and '[' of s from position i on that are still open at the end of
\* s, outermost first (quotes are not looked at, as in the counts of
\* _repair_json).
RECURSIVE StillOpen(_, _, _)
StillOpen(s, i, open) ==
    IF i > Len(s) THEN open
    ELSE IF s[i] \in {"{", "["} THEN StillOpen(s, i + 1, Append(open, s[i]))
    ELSE IF s[i] \in {"}", "]"} /\ open # <<>>
    THEN StillOpen(s, i + 1, SubSeq(open, 1, Len(open) - 1))
    ELSE StillOpen(s, i + 1, open)

\* The closers of the delimiters `open`, innermost first.
RECURSIVE MatchingClosers(_)
MatchingClosers(open) ==
    IF open = <<>> THEN <<>>
    ELSE <<IF open[Len(open)] = "{" THEN "}" ELSE "]">>
            \o MatchingClosers(SubSeq(open, 1, Len(open) - 1))

\* C23: when the repair pass runs on a text that was cut and that has more
\* opening than closing delimiters, the repaired text is the text, with or
\* without one closing quote, followed by the closers of its still-open '{'
\* and '[' in bracket-matching order (innermost first).
C23_ClosersInMatchingOrder ==
    LET open == StillOpen(response_text, 1, <<>>)
    IN  (/\ extracted.op = "_repair_json"
         /\ made.keep < Len(made.body)
         /\ open # <<>>) =>
            extracted.attempted \in
                { response_text \o MatchingClosers(open),
                  RStrip(response_text) \o <<QUOTE>> \o MatchingClosers(open) }

\* The spans of text from position i on that start at a '{' outside every
\* still-open '{' and end where the brace depth is back at zero, each parsed
\* as it is or after the repair and skipped when neither parses; a '}' that
\* matches no '{' is passed over.
RECURSIVE BalancedSpans(_, _, _, _, _)
BalancedSpans(text, i, depth, start_idx, objects) ==
    IF i > Len(text) THEN objects
    ELSE IF text[i] = "{"
    THEN BalancedSpans(text, i + 1, depth + 1, IF depth = 0 THEN i ELSE start_idx, objects)
    ELSE IF text[i] = "}" /\ depth = 1
    THEN BalancedSpans(text, i + 1, 0, 0, Candidate(objects, SubSeq(text, start_idx, i)))
    ELSE IF text[i] = "}" /\ depth > 1
    THEN BalancedSpans(text, i + 1, depth - 1, start_idx, objects)
    ELSE BalancedSpans(text, i + 1, depth, start_idx, objects)

\* C24: _extract_json_objects returns, in order of appearance, the objects of
\* the spans that run from a '{' outside every open '{' to the '}' where the
\* depth is back at zero and that parse, directly or after the repair; a
\* span that does not parse is skipped and the scan goes on, and a '}' that
\* matches no '{' changes nothing.
C24_CollectsBalancedSpans ==
    extracted.op = "_extract_json_objects" =>
        /\ extracted.kind = "return"
        /\ extracted.v =
              JList(BalancedSpans(StripNumbering(response_text, 1), 1, 0, 0, <<>>))

\* C25: the k-th sleep of a chat call, the one after its k-th failed
\* attempt, is base * k, whatever kind of failure was retried; a call sleeps
\* after every failed attempt but the last one it makes, and so at most
\* OLLAMA_MAX_RETRIES - 1 times: once it has returned or raised, it has slept
\* one time less than it has sent requests.
C25_LinearBackoff ==
    /\ \A k \in 1..Len(sleeps) : sleeps[k] = OLLAMA_RETRY_DELAY_SECONDS * k
    /\ Len(sleeps) <= OLLAMA_MAX_RETRIES - 1
    /\ pc["c1"] = "chat_sleep" =>
          /\ Len(sleeps) = reqs
          /\ wake["c1"] = now + sleeps[Len(sleeps)] \/ ev.op # "chat_attempt"
    /\ result.kind # "none" => Len(sleeps) = reqs - 1

\* C25, witness: the third attempt failed with a request error like the two
\* before it were retried; the call slept base and 2 * base and raised after
\* the third failure without a third sleep.
C25_Witness ==
    /\ ev.op = "chat_attempt"
    /\ ev.out = Failure("RequestException", 0, {})
    /\ result.kind = "api_exhausted"
    /\ reqs = OLLAMA_MAX_RETRIES
    /\ sleeps = <<OLLAMA_RETRY_DELAY_SECONDS, OLLAMA_RETRY_DELAY_SECONDS * 2>>

\* C26: in the skill extraction loop of both pipeline functions, once the
\* LLM call made for a job has failed with a rate-limit error,
\* extract_skills_from_job is called for no later job; and the loop ends
\* only after the last job or after such an error, so that any other failure
\* lets it go on.
C26_StopsAtRateLimit ==
    /\ \A i \in 1..Len(pipe.limited) : pipe.limited[i] => Len(pipe.tried) = i
    /\ pipe.pos = "done" =>
          \/ pipe.tried = [j \in Jobs |-> j]
          \/ pipe.limited # <<>> /\ pipe.limited[Len(pipe.limited)]

\* The pages 1 .. n, in order.
PagesTo(n) == [p \in 1..n |-> p]

\* C27: fetch_all_findsgjobs requests the pages 1, 2, ... in this order; a
\* 429 response at page p ends the call without an error, with the jobs of
\* the pages before p, and no page after p is requested; an HTTP error of any
\* other status is raised to the caller.
C27_StopsAt429 ==
    /\ fetch.requested = PagesTo(Len(fetch.requested))
    /\ (ev.op = "fetch_page" /\ ev.out.kind = "HTTPError") =>
          /\ fetch.pos = "done"
          /\ fetch.requested = PagesTo(fetch.page)
          /\ IF ev.out.status = 429
             THEN fetch.ended = "returned" /\ fetch.all_jobs = PagesTo(fetch.page - 1)
             ELSE fetch.ended = "raised" /\ fetch.status = ev.out.status

\* C28: one chat call terminates.  Whatever the outcomes of its requests, a
\* call that has started ends, by returning or by raising; it has then made
\* at least one request and at most OLLAMA_MAX_RETRIES; it returns text
\* exactly when its last request was answered with a completion, and that
\* request is the first of the call so answered: a request answered with a
\* completion ends the call, so that no request follows it.
Successful(o) == o.kind = "response" /\ o.status = 200 /\ o.content

InChat == pc["c1"] # "idle"

ChatEnded == pc["c1"] = "idle" /\ result # NoResult

C28_ChatBounds ==
    /\ reqs <= OLLAMA_MAX_RETRIES
    /\ ChatEnded => reqs >= 1
    /\ ev.op = "chat_attempt" =>
          /\ Successful(ev.out) => ChatEnded /\ result = Returned
          /\ ChatEnded => (result = Returned <=> Successful(ev.out))

C28_ChatTerminates == []C28_ChatBounds /\ (InChat ~> ChatEnded)

\* A call that ended after OLLAMA_MAX_RETRIES requests, the last one answered
\* with a completion, having slept between them.
C28_Witness ==
    /\ ChatEnded
    /\ ev.op = "chat_attempt"
    /\ Successful(ev.out)
    /\ reqs = OLLAMA_MAX_RETRIES
    /\ Len(sleeps) = OLLAMA_MAX_RETRIES - 1

\* The key a step acts on: the key of a status call, else the model_name of
\* the acquire the caller is in (of the acquire it calls, for the call step).
ActingKey ==
    IF ev'.op = "status" THEN ev'.m
    ELSE IF pc[ev'.c] # "idle" THEN key[ev'.c]
    ELSE key'[ev'.c]

\* No two keys have the same deque, and the `timestamps` an acquire works on
\* is the deque of its own key.
OwnDeque ==
    /\ \A a, b \in Models : (a # b /\ store[a] # NoDeque) => store[a] # store[b]
    /\ \A c \in Callers :
          (lim[c] = "ollama" /\ dq[c] # NoDeque) => dq[c] = store[key[c]]

\* C29: a step of an acquire or of a status call on key A leaves the window
\* of every other key B as it was (same deque, same timestamps); the deque an
\* acquire counts, evicts from, waits on and appends to is that of its own
\* key, which no other key has.
C29_OtherKeysUntouched ==
    /\ []OwnDeque
    /\ [][\A b \in Models :
            b # ActingKey => (store'[b] = store[b] /\ Window(b)' = Window(b))]_vars

\* An acquire on one key has returned, its timestamp appended to that key's
\* window, while the other key has an older timestamp in its window.
C29_Witness ==
    /\ ev.op = "acq_return"
    /\ ev.l = "ollama"
    /\ \E b \in Models \ {ev.m} :
          /\ Window(b) # <<>>
          /\ Window(ev.m) # <<>>
          /\ Window(b)[1] < Window(ev.m)[1]
          /\ Window(b)[Len(Window(b))] # Window(ev.m)[Len(Window(ev.m))]

====
